---- MODULE Spec2Model ----
(***************************************************************************)
(* Shop inventory generator of archives-of-nethys-scraper:                 *)
(* shop_generator.py (create_search_request, _generate_shop_item_weights)  *)
(* and search_service.py (AonSearchService and its helpers).               *)
(* The scrapers scrape_aon.py and scrape_images.py follow at the end, with *)
(* specifications of their own.                                            *)
(*                                                                         *)
(* A Python str is modelled as a sequence of one-character strings, so     *)
(* that split, replace, slicing, int() and f-string formatting are         *)
(* computed character by character.  Tags that the code only compares     *)
(* for equality or list membership (rarity, trait, source, category) are   *)
(* TLA+ strings.                                                           *)
(***************************************************************************)
EXTENDS Integers, Sequences, FiniteSets, TLC

----------------------------------------------------------------------------
(* Python built-ins used by the code *)

\* the value None, and a list slot / optional attribute holding it
NoneValue == [none |-> TRUE]

IsNone(x) == x = NoneValue

Digits == <<"0", "1", "2", "3", "4", "5", "6", "7", "8", "9">>

DigitChars == {Digits[i] : i \in 1..10}

DigitValue(c) == (CHOOSE i \in 1..10 : Digits[i] = c) - 1

RECURSIVE SumSeq(_)
\* sum(list)
SumSeq(s) == IF s = <<>> THEN 0 ELSE Head(s) + SumSeq(Tail(s))

RECURSIVE MaxSeq(_)
\* max(list) of a non-empty list
MaxSeq(s) ==
    IF Len(s) = 1 THEN s[1]
    ELSE LET m == MaxSeq(Tail(s)) IN IF Head(s) >= m THEN Head(s) ELSE m

\* s[a:b] for 0 <= a <= b
Slice(s, a, b) ==
    LET hi == IF b < Len(s) THEN b ELSE Len(s)
    IN  IF a >= hi THEN <<>> ELSE SubSeq(s, a + 1, hi)

\* s.startswith(sub, i - 1), i being a 1-based position
MatchesAt(s, sub, i) ==
    /\ i + Len(sub) - 1 <= Len(s)
    /\ \A k \in 1..Len(sub) : s[i + k - 1] = sub[k]

\* sub in s
Contains(s, sub) == \E i \in 1..(Len(s) + 1) : MatchesAt(s, sub, i)

RECURSIVE Split(_, _)
\* s.split(sep) for a non-empty separator
Split(s, sep) ==
    IF \E i \in 1..Len(s) : MatchesAt(s, sep, i)
    THEN LET i == CHOOSE i \in 1..Len(s) :
                      /\ MatchesAt(s, sep, i)
                      /\ \A j \in 1..(i - 1) : ~MatchesAt(s, sep, j)
         IN  <<SubSeq(s, 1, i - 1)>> \o Split(SubSeq(s, i + Len(sep), Len(s)), sep)
    ELSE <<s>>

RECURSIVE Join(_, _)
\* sep.join(parts)
Join(parts, sep) ==
    IF parts = <<>> THEN <<>>
    ELSE IF Len(parts) = 1 THEN parts[1]
    ELSE parts[1] \o sep \o Join(Tail(parts), sep)

\* s.replace(old, new) for a non-empty old
Replace(s, old, new) == Join(Split(s, old), new)

RECURSIVE DigitsToNat(_)
DigitsToNat(s) ==
    IF s = <<>> THEN 0
    ELSE 10 * DigitsToNat(SubSeq(s, 1, Len(s) - 1)) + DigitValue(s[Len(s)])

\* int(s) accepts an optional sign followed by at least one decimal digit
IntParses(s) ==
    LET body == IF s # <<>> /\ s[1] \in {"+", "-"} THEN Tail(s) ELSE s
    IN  /\ body # <<>>
        /\ \A i \in 1..Len(body) : body[i] \in DigitChars

\* int(s) where IntParses(s); otherwise int(s) raises ValueError
IntOf(s) ==
    IF s[1] = "-" THEN 0 - DigitsToNat(Tail(s))
    ELSE IF s[1] = "+" THEN DigitsToNat(Tail(s))
    ELSE DigitsToNat(s)

RECURSIVE NatToStr(_)
NatToStr(n) ==
    IF n < 10 THEN <<Digits[n + 1]>>
    ELSE NatToStr(n \div 10) \o <<Digits[(n % 10) + 1]>>

\* str(n), as an f-string renders an int
Str(n) == IF n < 0 THEN <<"-">> \o NatToStr(0 - n) ELSE NatToStr(n)

\* x / y for y > 0 rounded away from zero
IntRoundedUpDiv(x, y) == IF x >= 0 THEN (x + y - 1) \div y ELSE 0 - ((0 - x + y - 1) \div y)

\* int(x / y) for y > 0: true division, then truncation toward zero
IntTrueDiv(x, y) == IF x >= 0 THEN x \div y ELSE 0 - ((0 - x) \div y)

UpperLetters == <<"A", "W">>

LowerLetters == <<"a", "w">>

\* str.lower() on the letters that occur capitalised in an ItemTypeData.potency_name
LowerChar(c) ==
    IF \E i \in 1..Len(UpperLetters) : UpperLetters[i] = c
    THEN LowerLetters[CHOOSE i \in 1..Len(UpperLetters) : UpperLetters[i] = c]
    ELSE c

Lower(s) == [i \in 1..Len(s) |-> LowerChar(s[i])]

\* [x for x in s if keep(x)]
RECURSIVE SelectNotNone(_)
SelectNotNone(s) ==
    IF s = <<>> THEN <<>>
    ELSE IF IsNone(Head(s)) THEN SelectNotNone(Tail(s))
    ELSE <<Head(s)>> \o SelectNotNone(Tail(s))

\* any(item in list1 for item in list2)
_any_from_list_is_in_list(list1, list2) ==
    \E i \in 1..Len(list2) : \E j \in 1..Len(list1) : list1[j] = list2[i]

----------------------------------------------------------------------------
(* Floats.  A weight is either math.exp(-v/10), kept as its exponent, or a  *)
(* literal; math.exp underflows to 0.0 below exp(-745.1).                   *)

ExpUnderflowTenths == 7451

ZeroFloat == [kind |-> "lit", v |-> 0]

\* math.exp(-(v/10)) for v >= 0; math.exp(-0.0) is the float 1.0
MathExpNeg(v) == IF v > ExpUnderflowTenths THEN ZeroFloat ELSE [kind |-> "exp", v |-> v]

\* the literals 0.2 and 0.05, in hundredths
Lit(hundredths) == [kind |-> "lit", v |-> hundredths]

IsPositiveFloat(w) == w.kind = "exp" \/ w.v > 0

----------------------------------------------------------------------------
(* shop_generator.py *)

DefaultMaxLevel == 30

\* _generate_shop_item_weights without the branch of line 220-221
WeightsWithoutSecondLevelAbove(shop_level, max_level, decay) ==
    [level \in {l \in 0..max_level : l <= shop_level + 1} |->
        IF level <= shop_level THEN MathExpNeg(decay * (shop_level - level)) ELSE Lit(20)]

\* _generate_shop_item_weights with one more branch, for shop_level + 3
WeightsWithThirdLevelAbove(shop_level, max_level, decay) ==
    [level \in {l \in 0..max_level : l <= shop_level + 3} |->
        IF level <= shop_level THEN MathExpNeg(decay * (shop_level - level))
        ELSE IF level = shop_level + 1 THEN Lit(20)
        ELSE Lit(5)]

\* _generate_shop_item_weights(shop_level, max_level, decay); decay in tenths
_generate_shop_item_weights(shop_level, max_level, decay) ==
    LET visited == {level \in 0..max_level :
                        \/ level <= shop_level
                        \/ level = shop_level + 1
                        \/ level = shop_level + 2}
    IN  [level \in visited |->
            IF level <= shop_level THEN MathExpNeg(decay * (shop_level - level))
            ELSE IF level = shop_level + 1 THEN Lit(20)
            ELSE Lit(5)]

ShopTypes == {"potion", "artifact", "poison", "weapon", "armor", "any",
              "blacksmith", "blacksmith-magic"}

\* TraitRequest(required_traits, exclude_traits, categories)
TraitRequest(required, exclude, categories) ==
    [required_traits |-> required, exclude_traits |-> exclude, categories |-> categories]

DefaultCategories == <<"equipment">>

\* Shop.decay, in tenths
ShopDecay(shop_type) == IF shop_type = "artifact" THEN 2 ELSE 5

\* shop_by_shop_type[t].equipment_shop_info (NoneValue when absent)
EquipmentShopInfo(shop_type) ==
    CASE shop_type = "potion" ->
            TraitRequest(<<"Potion", "Consumable">>, <<>>, DefaultCategories)
      [] shop_type = "artifact" ->
            TraitRequest(<<"Magical">>, <<"Consumable", "Tattoo">>, DefaultCategories)
      [] shop_type = "poison" ->
            TraitRequest(<<"Poison">>, <<>>, DefaultCategories)
      [] shop_type = "any" ->
            TraitRequest(<<>>, <<>>, <<"equipment", "weapon", "armor">>)
      [] shop_type = "blacksmith" ->
            TraitRequest(<<>>, <<>>, <<"weapon", "armor">>)
      [] OTHER -> NoneValue

\* shop_by_shop_type[t].item_with_runes_shop_info.weapon_to_armor_proportion,
\* in tenths (NoneValue when the shop has no item_with_runes_shop_info)
ItemWithRunesShopInfo(shop_type) ==
    CASE shop_type = "weapon" -> [weapon_to_armor_proportion |-> 10]
      [] shop_type = "armor" -> [weapon_to_armor_proportion |-> 0]
      [] shop_type = "any" -> [weapon_to_armor_proportion |-> 5]
      [] shop_type = "blacksmith-magic" -> [weapon_to_armor_proportion |-> 5]
      [] OTHER -> NoneValue

\* the arguments of the call of _generate_shop_item_weights in create_search_request:
\* shop_request.decay or shop.decay takes shop.decay for None and for 0.0
ShopWeightsArgs(shop_request) ==
    [shop_level |-> shop_request.level,
     max_level |-> DefaultMaxLevel,
     decay |-> IF IsNone(shop_request.decay) \/ shop_request.decay.tenths = 0
               THEN ShopDecay(shop_request.shop_type)
               ELSE shop_request.decay.tenths]

\* create_search_request(shop_request): the GeneralSearchRequest
create_search_request(shop_request) ==
    LET args == ShopWeightsArgs(shop_request)
        weights == _generate_shop_item_weights(args.shop_level, args.max_level, args.decay)
        eq == EquipmentShopInfo(shop_request.shop_type)
        wr == ItemWithRunesShopInfo(shop_request.shop_type)
        p == wr.weapon_to_armor_proportion
    IN  [equipment_search_request |->
            IF IsNone(eq) THEN NoneValue
            ELSE [traits |-> eq,
                  level_request |-> weights,
                  rarity_request |-> shop_request.rarity_request],
         item_with_runes_search_request |->
            IF IsNone(wr) THEN NoneValue
            ELSE [level_request |-> weights,
                  weapons |-> IntTrueDiv(shop_request.number * p, 10),
                  armor |-> IntTrueDiv(shop_request.number * (10 - p), 10)]]

----------------------------------------------------------------------------
(* search_service.py: pure helpers *)

\* _get_item_potency_by_name(name): name.split(' ')[-1][1:3]
_get_item_potency_by_name(name) ==
    LET words == Split(name, <<" ">>) IN Slice(words[Len(words)], 1, 3)

\* _get_item_strength_by_name(name, postfix)
_get_item_strength_by_name(name, postfix) ==
    IF Contains(name, <<"G", "r", "e", "a", "t", "e", "r">>) THEN <<"G", "r", "e", "a", "t", "e", "r", " ">> \o postfix
    ELSE IF Contains(name, <<"M", "a", "j", "o", "r">>) THEN <<"M", "a", "j", "o", "r", " ">> \o postfix
    ELSE postfix

\* the dict mappings of _get_cost_in_cp
MappingsKeys == {<<"c", "p">>, <<"s", "p">>, <<"g", "p">>}

\* the dict mappings with 'sp': 100
MappingsSilverAsGold(k) == IF k = <<"c", "p">> THEN 1 ELSE 100

Mappings(k) == IF k = <<"c", "p">> THEN 1 ELSE IF k = <<"s", "p">> THEN 10 ELSE 100

\* one summand of _get_cost_in_cp: the exception it raises ("" when none)
CostTermError(term) ==
    LET words == Split(term, <<" ">>)
    IN  IF ~IntParses(Replace(words[1], <<",">>, <<>>)) THEN "ValueError"
        ELSE IF Len(words) < 2 THEN "IndexError"
        ELSE IF words[2] \notin MappingsKeys THEN "KeyError"
        ELSE ""

CostTermValue(term) ==
    LET words == Split(term, <<" ">>)
    IN  IntOf(Replace(words[1], <<",">>, <<>>)) * Mappings(words[2])

\* _get_cost_in_cp(price) raises
CostRaises(price) ==
    /\ price # <<>>
    /\ LET price_split == Split(price, <<",", " ">>)
       IN  \E i \in 1..Len(price_split) : CostTermError(price_split[i]) # ""

\* _get_cost_in_cp(price) where it does not raise
_get_cost_in_cp(price) ==
    IF price = <<>> THEN 0
    ELSE LET price_split == Split(price, <<",", " ">>)
         IN  SumSeq([i \in 1..Len(price_split) |-> CostTermValue(price_split[i])])

\* _ItemWithRunes.__get_all_as_list
get_all_as_list(iwr) ==
    SelectNotNone(<<iwr.item, iwr.potency, iwr.strength>> \o iwr.property_runes)

\* get_gp_cost without lines 89-90
GpCostWithoutCopper(iwr) ==
    LET parts == get_all_as_list(iwr)
        cost == SumSeq([i \in 1..Len(parts) |-> _get_cost_in_cp(parts[i].price_raw)])
        gp_cost == IntTrueDiv(cost, 100)
        sp_cost == IntTrueDiv(cost % 100, 10)
    IN  Str(gp_cost) \o <<" ", "g", "p">>
          \o (IF sp_cost > 0 THEN <<",", " ">> \o Str(sp_cost) \o <<" ", "s", "p">> ELSE <<>>)

\* _ItemWithRunes.get_gp_cost, where no part's price raises
get_gp_cost(iwr) ==
    LET parts == get_all_as_list(iwr)
        cost == SumSeq([i \in 1..Len(parts) |-> _get_cost_in_cp(parts[i].price_raw)])
        gp_cost == IntTrueDiv(cost, 100)
        sp_cost == IntTrueDiv(cost % 100, 10)
        cp_cost == cost % 10
    IN  Str(gp_cost) \o <<" ", "g", "p">>
          \o (IF sp_cost > 0 THEN <<",", " ">> \o Str(sp_cost) \o <<" ", "s", "p">> ELSE <<>>)
          \o (IF cp_cost > 0 THEN <<",", " ">> \o Str(cp_cost) \o <<" ", "c", "p">> ELSE <<>>)

\* get_level over [self.item, self.potency, self.strength] only
LevelWithoutPropertyRunes(iwr) ==
    LET parts == SelectNotNone(<<iwr.item, iwr.potency, iwr.strength>>)
    IN  MaxSeq([i \in 1..Len(parts) |-> parts[i].level])

\* _ItemWithRunes.get_level
get_level(iwr) ==
    LET parts == get_all_as_list(iwr)
    IN  MaxSeq([i \in 1..Len(parts) |-> parts[i].level])

get_potency_modifier_str(iwr) ==
    IF IsNone(iwr.potency) THEN <<>>
    ELSE _get_item_potency_by_name(iwr.potency.name) \o <<" ">>

get_strength_modifier_str(iwr) ==
    IF IsNone(iwr.strength) THEN <<>>
    ELSE _get_item_strength_by_name(iwr.strength.name, iwr.item_type_data.strength_name) \o <<" ">>

get_property_runes_str(iwr) ==
    LET properties_str ==
            Join([i \in 1..Len(iwr.property_runes) |-> iwr.property_runes[i].name], <<" ">>)
    IN  IF properties_str # <<>> THEN properties_str \o <<" ">> ELSE <<>>

\* get_name with the strength modifier before the potency modifier
NameWithStrengthFirst(iwr) ==
    get_strength_modifier_str(iwr) \o get_potency_modifier_str(iwr)
        \o get_property_runes_str(iwr) \o iwr.item.name

\* _ItemWithRunes.get_name
get_name(iwr) ==
    get_potency_modifier_str(iwr) \o get_strength_modifier_str(iwr)
        \o get_property_runes_str(iwr) \o iwr.item.name

\* ItemTypeData('Weapon', 'Striking', n) and ItemTypeData('Armor', 'Resilient', n)
ItemTypeData(potency_name, strength_name, amount) ==
    [potency_name |-> potency_name, strength_name |-> strength_name, amount |-> amount]

\* potency_postfixes of _get_runes_info
potency_postfixes(item_type_data) ==
    [i \in 1..3 |-> item_type_data.potency_name \o <<" ", "P", "o", "t", "e", "n", "c", "y", " ", "(", "+">> \o Str(i) \o <<")">>]

\* strength_postfixes with a rank_postfix of [None, None, None]
StrengthPostfixesWithoutRank(item_type_data) ==
    <<item_type_data.strength_name, item_type_data.strength_name, item_type_data.strength_name>>

\* strength_postfixes of _get_runes_info: rank_postfix = [None, 'Greater', 'Major']
strength_postfixes(item_type_data) ==
    <<item_type_data.strength_name,
      item_type_data.strength_name \o <<" ", "(">> \o <<"G", "r", "e", "a", "t", "e", "r">> \o <<")">>,
      item_type_data.strength_name \o <<" ", "(">> \o <<"M", "a", "j", "o", "r">> \o <<")">>>>

\* first(lambda item: item.name == name, iterable) raises StopIteration
FirstRaises(name, iterable) == \A i \in 1..Len(iterable) : iterable[i].name # name

\* first(lambda item: item.name == name, iterable) where it does not raise
first(name, iterable) ==
    iterable[CHOOSE i \in 1..Len(iterable) :
                /\ iterable[i].name = name
                /\ \A j \in 1..(i - 1) : iterable[j].name # name]

RECURSIVE DictFromItems(_, _)
\* d = {0: []}; for item in items: d[item.level] = [item]
DictFromItems(d, items) ==
    IF items = <<>> THEN d
    ELSE LET item == Head(items)
             d2 == [l \in DOMAIN d \cup {item.level} |->
                        IF l = item.level THEN <<item>> ELSE d[l]]
         IN  DictFromItems(d2, Tail(items))

RECURSIVE AppendByLevel(_, _)
\* for item in items: d[item.level].append(item), d a defaultdict(list)
AppendByLevel(d, items) ==
    IF items = <<>> THEN d
    ELSE LET item == Head(items)
             d2 == [l \in DOMAIN d \cup {item.level} |->
                        IF l = item.level
                        THEN (IF l \in DOMAIN d THEN d[l] ELSE <<>>) \o <<item>>
                        ELSE d[l]]
         IN  AppendByLevel(d2, Tail(items))

EmptyDict == [l \in {} |-> <<>>]

\* one bucket map for all rarities
ItemsByLevelOfAnyRarity(items, rarity) == AppendByLevel(EmptyDict, items)

\* items_by_rarity_by_level[rarity] of _choose_items_by_level_and_rarity
ItemsByLevel(items, rarity) ==
    AppendByLevel(EmptyDict, SelectSeq(items, LAMBDA item : item.rarity = rarity))

\* level_to_weight of _get_random_item after the pops
RestrictedWeights(items_by_level, weights) ==
    [l \in {k \in DOMAIN weights : k \in DOMAIN items_by_level} |-> weights[l]]

\* _get_random_item returns None before drawing
DrawIsEmpty(items_by_level, weights) ==
    \/ DOMAIN RestrictedWeights(items_by_level, weights) = {}
    \/ DOMAIN items_by_level = {}

\* random.choices(levels, weights=...) raises ValueError: the total is not positive
ChoicesRaises(level_to_weight) ==
    \A l \in DOMAIN level_to_weight : ~IsPositiveFloat(level_to_weight[l])

\* the levels random.choices can return
ChoosableLevels(level_to_weight) ==
    {l \in DOMAIN level_to_weight : IsPositiveFloat(level_to_weight[l])}

\* _get_random_item raises
GetRandomItemRaises(items_by_level, weights) ==
    /\ ~DrawIsEmpty(items_by_level, weights)
    /\ ChoicesRaises(RestrictedWeights(items_by_level, weights))

\* the values _get_random_item can return
_get_random_item(items_by_level, weights) ==
    IF DrawIsEmpty(items_by_level, weights) THEN {NoneValue}
    ELSE UNION {
            LET items_to_choose == items_by_level[level]
            IN  IF Len(items_to_choose) > 0
                THEN {items_to_choose[i] : i \in 1..Len(items_to_choose)}
                ELSE {NoneValue}
            : level \in ChoosableLevels(RestrictedWeights(items_by_level, weights))}

\* the price regex of _parse_aon_price, tried at position i of the markdown:
\* \*\*Price\*\* (\d+ gp)(?: (\d+sp))?(?: (\d+cp))?  -- the end of the match, 0 if none
RECURSIVE DigitRunEnd(_, _)
DigitRunEnd(s, i) ==
    IF i <= Len(s) /\ s[i] \in DigitChars THEN DigitRunEnd(s, i + 1) ELSE i - 1

OptionalCoinEnd(s, after, coin) ==
    LET e == DigitRunEnd(s, after + 2)
    IN  IF /\ MatchesAt(s, <<" ">>, after + 1)
           /\ e >= after + 2
           /\ MatchesAt(s, coin, e + 1)
        THEN e + Len(coin)
        ELSE after

PriceMatchEnd(s, i) ==
    LET a == i + 10
        e == DigitRunEnd(s, a)
    IN  IF MatchesAt(s, <<"*", "*", "P", "r", "i", "c", "e", "*", "*", " ">>, i) /\ e >= a /\ MatchesAt(s, <<" ", "g", "p">>, e + 1)
        THEN OptionalCoinEnd(s, OptionalCoinEnd(s, e + 3, <<"s", "p">>), <<"c", "p">>)
        ELSE 0

\* _parse_aon_price(item), item.markdown a str
_parse_aon_price(item) ==
    IF item.price_raw # <<>> THEN item.price_raw
    ELSE LET md == item.markdown
         IN  IF \E i \in 1..Len(md) : PriceMatchEnd(md, i) > 0
             THEN LET i == CHOOSE i \in 1..Len(md) :
                               /\ PriceMatchEnd(md, i) > 0
                               /\ \A j \in 1..(i - 1) : PriceMatchEnd(md, j) = 0
                  \* match.group(0); markdown_names has at most one entry, so the
                  \* loop can only return match.group(0) as well
                  IN  SubSeq(md, i, PriceMatchEnd(md, i))
             ELSE <<>>

\* the loop body of _fix_aon_price
FixOne(item) ==
    IF IsNone(item.markdown) THEN item
    ELSE LET price == _parse_aon_price(item)
             fixed == IF Contains(price, <<"P", "r", "i", "c", "e">>)
                      THEN Join(Tail(Split(price, <<" ">>)), <<" ">>)
                      ELSE price
         IN  [item EXCEPT !.price_raw = fixed]

\* _fix_aon_price(items)
_fix_aon_price(items) == [i \in 1..Len(items) |-> FixOne(items[i])]

\* ItemOutputData(name, rarity, level, price_raw, url, markdown)
ItemOutputData(name, rarity, level, price_raw, url, markdown) ==
    [name |-> name, rarity |-> rarity, level |-> level, price_raw |-> price_raw,
     url |-> url, markdown |-> markdown]

\* getattr(item, 'markdown') succeeds
HasMarkdownAttr(item) == "markdown" \in DOMAIN item

\* _to_item_output_data(item), where item has the attribute markdown
_to_item_output_data(item) ==
    ItemOutputData(item.name, item.rarity, item.level, item.price_raw, item.url, item.markdown)

----------------------------------------------------------------------------
(* The catalog: what the AonItemLoader collaborator returns *)

\* AonItemJson, the dataclass of aon_item_loader.py: it has no markdown field
AonItemJson(id, name, rarity, level, price_raw, category, item_subcategory, source, trait) ==
    [name |-> name, rarity |-> rarity, level |-> level, url |-> <<"/" \o id>>,
     category |-> category, id |-> id, price_raw |-> price_raw, source |-> source,
     trait |-> trait, item_subcategory |-> item_subcategory]

\* an item object that also carries a markdown attribute (a loader other than
\* LocalFileAonItemLoader may supply such objects)
WithMarkdown(item, markdown) ==
    [name |-> item.name, rarity |-> item.rarity, level |-> item.level, url |-> item.url,
     category |-> item.category, id |-> item.id, price_raw |-> item.price_raw,
     source |-> item.source, trait |-> item.trait,
     item_subcategory |-> item.item_subcategory, markdown |-> markdown]

\* a rune of a source that is not among the sources of main()
Rune(id, name, level, price_raw, item_subcategory) ==
    AonItemJson(id, name, "common", level, price_raw, "equipment", item_subcategory,
                <<"Core Rulebook">>, <<"Magical">>)

WeaponPotency1 == Rune("e1", <<"W", "e", "a", "p", "o", "n", " ", "P", "o", "t", "e", "n", "c", "y", " ", "(", "+", "1", ")">>, 2, <<"3", "5", " ", "g", "p">>, <<"F", "u", "n", "d", "a", "m", "e", "n", "t", "a", "l", " ", "W", "e", "a", "p", "o", "n", " ", "R", "u", "n", "e", "s">>)
WeaponPotency2 == Rune("e2", <<"W", "e", "a", "p", "o", "n", " ", "P", "o", "t", "e", "n", "c", "y", " ", "(", "+", "2", ")">>, 4, <<"9", "3", "5", " ", "g", "p">>, <<"F", "u", "n", "d", "a", "m", "e", "n", "t", "a", "l", " ", "W", "e", "a", "p", "o", "n", " ", "R", "u", "n", "e", "s">>)
WeaponPotency3 == Rune("e3", <<"W", "e", "a", "p", "o", "n", " ", "P", "o", "t", "e", "n", "c", "y", " ", "(", "+", "3", ")">>, 16, <<"8", ",", "9", "3", "5", " ", "g", "p">>, <<"F", "u", "n", "d", "a", "m", "e", "n", "t", "a", "l", " ", "W", "e", "a", "p", "o", "n", " ", "R", "u", "n", "e", "s">>)
Striking == Rune("e4", <<"S", "t", "r", "i", "k", "i", "n", "g">>, 3, <<"6", "5", " ", "g", "p">>, <<"F", "u", "n", "d", "a", "m", "e", "n", "t", "a", "l", " ", "W", "e", "a", "p", "o", "n", " ", "R", "u", "n", "e", "s">>)
StrikingGreater == Rune("e5", <<"S", "t", "r", "i", "k", "i", "n", "g", " ", "(", "G", "r", "e", "a", "t", "e", "r", ")">>, 12, <<"1", ",", "0", "6", "5", " ", "g", "p">>, <<"F", "u", "n", "d", "a", "m", "e", "n", "t", "a", "l", " ", "W", "e", "a", "p", "o", "n", " ", "R", "u", "n", "e", "s">>)
StrikingMajor == Rune("e6", <<"S", "t", "r", "i", "k", "i", "n", "g", " ", "(", "M", "a", "j", "o", "r", ")">>, 19, <<"3", "1", ",", "0", "6", "5", " ", "g", "p">>, <<"F", "u", "n", "d", "a", "m", "e", "n", "t", "a", "l", " ", "W", "e", "a", "p", "o", "n", " ", "R", "u", "n", "e", "s">>)
Fanged == Rune("e7", <<"F", "a", "n", "g", "e", "d">>, 8, <<"3", "0", " ", "g", "p">>, <<"W", "e", "a", "p", "o", "n", " ", "P", "r", "o", "p", "e", "r", "t", "y", " ", "R", "u", "n", "e", "s">>)
Returning == Rune("e8", <<"R", "e", "t", "u", "r", "n", "i", "n", "g">>, 3, <<"5", "5", " ", "g", "p", ",", " ", "9", " ", "s", "p", ",", " ", "5", " ", "c", "p">>, <<"W", "e", "a", "p", "o", "n", " ", "P", "r", "o", "p", "e", "r", "t", "y", " ", "R", "u", "n", "e", "s">>)
ArmorPotency1 == Rune("e9", <<"A", "r", "m", "o", "r", " ", "P", "o", "t", "e", "n", "c", "y", " ", "(", "+", "1", ")">>, 5, <<"1", "6", "0", " ", "g", "p">>, <<"F", "u", "n", "d", "a", "m", "e", "n", "t", "a", "l", " ", "A", "r", "m", "o", "r", " ", "R", "u", "n", "e", "s">>)
ArmorPotency2 == Rune("e10", <<"A", "r", "m", "o", "r", " ", "P", "o", "t", "e", "n", "c", "y", " ", "(", "+", "2", ")">>, 11, <<"1", ",", "0", "6", "0", " ", "g", "p">>, <<"F", "u", "n", "d", "a", "m", "e", "n", "t", "a", "l", " ", "A", "r", "m", "o", "r", " ", "R", "u", "n", "e", "s">>)
ArmorPotency3 == Rune("e11", <<"A", "r", "m", "o", "r", " ", "P", "o", "t", "e", "n", "c", "y", " ", "(", "+", "3", ")">>, 18, <<"2", "0", ",", "5", "6", "0", " ", "g", "p">>, <<"F", "u", "n", "d", "a", "m", "e", "n", "t", "a", "l", " ", "A", "r", "m", "o", "r", " ", "R", "u", "n", "e", "s">>)
Resilient == Rune("e12", <<"R", "e", "s", "i", "l", "i", "e", "n", "t">>, 3, <<"3", "4", "0", " ", "g", "p">>, <<"F", "u", "n", "d", "a", "m", "e", "n", "t", "a", "l", " ", "A", "r", "m", "o", "r", " ", "R", "u", "n", "e", "s">>)
ResilientGreater == Rune("e13", <<"R", "e", "s", "i", "l", "i", "e", "n", "t", " ", "(", "G", "r", "e", "a", "t", "e", "r", ")">>, 14, <<"3", ",", "4", "4", "0", " ", "g", "p">>, <<"F", "u", "n", "d", "a", "m", "e", "n", "t", "a", "l", " ", "A", "r", "m", "o", "r", " ", "R", "u", "n", "e", "s">>)
ResilientMajor == Rune("e14", <<"R", "e", "s", "i", "l", "i", "e", "n", "t", " ", "(", "M", "a", "j", "o", "r", ")">>, 20, <<"4", "9", ",", "4", "4", "0", " ", "g", "p">>, <<"F", "u", "n", "d", "a", "m", "e", "n", "t", "a", "l", " ", "A", "r", "m", "o", "r", " ", "R", "u", "n", "e", "s">>)
Slick == Rune("e15", <<"S", "l", "i", "c", "k">>, 4, <<"4", "5", " ", "g", "p">>, <<"A", "r", "m", "o", "r", " ", "P", "r", "o", "p", "e", "r", "t", "y", " ", "R", "u", "n", "e", "s">>)

HealingPotion ==
    AonItemJson("e16", <<"H", "e", "a", "l", "i", "n", "g", " ", "P", "o", "t", "i", "o", "n">>, "common", 1, <<"4", " ", "g", "p">>, "equipment", <<"P", "o", "t", "i", "o", "n", "s">>,
                <<"Player Core">>, <<"Consumable", "Healing", "Magical", "Potion">>)
Serum ==
    AonItemJson("e17", <<"S", "e", "r", "u", "m">>, "uncommon", 3, <<"1", " ", "g", "p", ",", " ", "5", " ", "s", "p">>, "equipment", <<"P", "o", "t", "i", "o", "n", "s">>,
                <<"Treasure Vault">>, <<"Consumable", "Potion">>)
Arsenic ==
    AonItemJson("e18", <<"A", "r", "s", "e", "n", "i", "c">>, "uncommon", 1, <<"3", " ", "g", "p">>, "equipment", <<"A", "l", "c", "h", "e", "m", "i", "c", "a", "l", " ", "P", "o", "i", "s", "o", "n", "s">>,
                <<"Player Core">>, <<"Alchemical", "Consumable", "Poison">>)
Amulet ==
    AonItemJson("e19", <<"A", "m", "u", "l", "e", "t">>, "rare", 4, <<>>, "equipment", <<"W", "o", "r", "n", " ", "I", "t", "e", "m", "s">>,
                <<"GM Core">>, <<"Magical">>)
Sigil ==
    AonItemJson("e20", <<"S", "i", "g", "i", "l">>, "unique", 2, <<"1", "2", " ", "g", "p", ",", " ", "3", " ", "s", "p", ",", " ", "1", " ", "c", "p">>, "equipment", <<"T", "a", "t", "t", "o", "o", "s">>,
                <<"Treasure Vault", "Homebrew">>, <<"Magical", "Tattoo">>)
Tome ==
    AonItemJson("e21", <<"T", "o", "m", "e">>, "common", 1, <<"7", " ", "c", "p">>, "equipment", <<"H", "e", "l", "d", " ", "I", "t", "e", "m", "s">>,
                <<"Homebrew">>, <<"Magical">>)

Dagger ==
    AonItemJson("w1", <<"D", "a", "g", "g", "e", "r">>, "common", 0, <<"2", " ", "s", "p">>, "weapon", <<>>,
                <<"Player Core">>, <<"Agile", "Finesse">>)
Hide ==
    AonItemJson("a1", <<"H", "i", "d", "e">>, "common", 0, <<>>, "armor", <<>>,
                <<"Core Rulebook">>, <<>>)
Aegis ==
    AonItemJson("a2", <<"A", "e", "g", "i", "s">>, "rare", 9, <<"1", ",", "0", "0", "0", " ", "g", "p">>, "armor", <<>>,
                <<"Treasure Vault">>, <<"Bulwark">>)

\* the text the catalog attaches to an item as its markdown attribute
MarkdownOf(item) ==
    IF item.id = "e19" THEN <<"*", "*", "P", "r", "i", "c", "e", "*", "*", " ", "3", "0", " ", "g", "p">>
    ELSE IF item.id \in {"e16", "e18"} THEN <<"A", " ", "v", "i", "a", "l", ".">>
    ELSE NoneValue

EquipmentFile ==
    <<WeaponPotency1, WeaponPotency2, WeaponPotency3, Striking, StrikingGreater, StrikingMajor,
      Fanged, Returning, ArmorPotency1, ArmorPotency2, ArmorPotency3, Resilient,
      ResilientGreater, ResilientMajor, Slick, HealingPotion, Serum, Arsenic, Amulet, Sigil,
      Tome>>

WeaponFile == <<Dagger>>

ArmorFile == <<Hide, Aegis>>

\* The loaders: the repository's LocalFileAonItemLoader over a complete catalog
\* ("local"), and loaders whose objects carry markdown: a complete catalog
\* ("full"), one without the rune Weapon Potency (+2), one without the rune
\* Resilient (Major), one whose weapon category is empty.
Loaders == {"local", "full", "no_weapon_rune", "no_armor_rune", "no_weapons"}

Categories == {"equipment", "weapon", "armor"}

\* the objects each loader makes of aon-data/aon39/{category}.json
CategoryFile ==
    [loader \in Loaders |-> [category \in Categories |->
        LET file == CASE category = "equipment" ->
                           SelectSeq(EquipmentFile, LAMBDA item :
                               /\ ~(loader = "no_weapon_rune" /\ item.id = "e2")
                               /\ ~(loader = "no_armor_rune" /\ item.id = "e14"))
                      [] category = "weapon" ->
                           IF loader = "no_weapons" THEN <<>> ELSE WeaponFile
                      [] category = "armor" -> ArmorFile
        IN  IF loader = "local" THEN file
            ELSE [i \in 1..Len(file) |-> WithMarkdown(file[i], MarkdownOf(file[i]))]]]

\* AonItemLoader.load_items_by_category(category)
load_items_by_category(loader, category) == CategoryFile[loader][category]

\* the category a str names
CategoryOf(name) ==
    IF name = <<"w", "e", "a", "p", "o", "n">> THEN "weapon"
    ELSE IF name = <<"a", "r", "m", "o", "r">> THEN "armor"
    ELSE "equipment"

RECURSIVE load_items_by_categories(_, _)
\* AonItemLoader.load_items_by_categories(categories)
load_items_by_categories(loader, categories) ==
    IF categories = <<>> THEN <<>>
    ELSE load_items_by_category(loader, Head(categories))
            \o load_items_by_categories(loader, Tail(categories))

\* the sources of main()
Sources ==
    <<"Treasure Vault", "GM Core", "Player Core", "Monster Core", "Secrets of Magic",
      "Rage of Elements", "Guns & Gears", "Gods & Magic", "Book of the Dead", "Grand Bazaar">>

UrlPrefix == "https://2e.aonprd.com"

----------------------------------------------------------------------------
(* search_service.py: rune setup and the composite draw *)

\* _get_runes_info(item_type_data) raises StopIteration
RunesInfoRaises(loader, item_type_data) ==
    LET equipment == load_items_by_category(loader, "equipment")
    IN  \/ \E i \in 1..3 : FirstRaises(potency_postfixes(item_type_data)[i], equipment)
        \/ \E i \in 1..3 : FirstRaises(strength_postfixes(item_type_data)[i], equipment)

\* _get_runes_info(item_type_data) where it does not raise: the RunesInfo
_get_runes_info(loader, item_type_data) ==
    LET equipment == load_items_by_category(loader, "equipment")
        weapons == load_items_by_category(loader, CategoryOf(Lower(item_type_data.potency_name)))
        item_potency == [i \in 1..3 |-> first(potency_postfixes(item_type_data)[i], equipment)]
        item_strength == [i \in 1..3 |-> first(strength_postfixes(item_type_data)[i], equipment)]
        item_property_runes ==
            SelectSeq(equipment, LAMBDA item :
                item.item_subcategory = item_type_data.potency_name \o <<" ", "P", "r", "o", "p", "e", "r", "t", "y", " ", "R", "u", "n", "e", "s">>)
    IN  [item_potency_level_to_item |-> DictFromItems([l \in {0} |-> <<>>], item_potency),
         item_strength_level_to_item |-> DictFromItems([l \in {0} |-> <<>>], item_strength),
         item_property_runes_level_to_items |->
             AppendByLevel([l \in {0} |-> <<NoneValue>>], item_property_runes),
         items |-> weapons,
         item_type_data |-> item_type_data]

\* _ItemWithRunes(item, potency, strength, item_type_data, property_runes)
ItemWithRunes(item, potency, strength, item_type_data, property_runes) ==
    [item |-> item, potency |-> potency, strength |-> strength,
     item_type_data |-> item_type_data, property_runes |-> property_runes]

\* an outcome of _get_random_item_with_runes: the exception raised ("" when none),
\* the _ItemWithRunes built and the ItemOutputData returned
Raise(exception) == [raised |-> exception, made |-> NoneValue, output |-> NoneValue]

\* the exception get_gp_cost raises for a composite ("" when none)
CostError(iwr) ==
    LET parts == get_all_as_list(iwr)
    IN  IF \A i \in 1..Len(parts) : ~CostRaises(parts[i].price_raw) THEN ""
        ELSE LET i == CHOOSE i \in 1..Len(parts) :
                          /\ CostRaises(parts[i].price_raw)
                          /\ \A j \in 1..(i - 1) : ~CostRaises(parts[j].price_raw)
                 price_split == Split(parts[i].price_raw, <<",", " ">>)
                 k == CHOOSE k \in 1..Len(price_split) :
                          /\ CostTermError(price_split[k]) # ""
                          /\ \A j \in 1..(k - 1) : CostTermError(price_split[j]) = ""
             IN  CostTermError(price_split[k])

\* lines 288-301: build the _ItemWithRunes and the ItemOutputData
BuildComposite(runes_info, potency, strength, property_runes) ==
    IF Len(runes_info.items) = 0 THEN {Raise("IndexError")}
    ELSE {LET iwr == ItemWithRunes(runes_info.items[b], potency, strength,
                                   runes_info.item_type_data, property_runes)
          IN  IF CostError(iwr) # "" THEN Raise(CostError(iwr))
              ELSE [raised |-> "", made |-> iwr,
                    output |-> ItemOutputData(get_name(iwr), "unique", get_level(iwr),
                                              get_gp_cost(iwr), <<>>, NoneValue)]
          : b \in 1..Len(runes_info.items)}

\* lines 280-286 with random.randrange(0, potency_rank + 2)
DrawOneMorePropertyRune(runes_info, weights, potency, strength, potency_rank) ==
    LET by_level == runes_info.item_property_runes_level_to_items
    IN  UNION {
            IF k >= 1 /\ GetRandomItemRaises(by_level, weights) THEN {Raise("ValueError")}
            ELSE UNION {BuildComposite(runes_info, potency, strength, SelectNotNone(draws))
                        : draws \in [1..k -> _get_random_item(by_level, weights)]}
            : k \in 0..(potency_rank + 1)}

\* lines 280-286: random.randrange(0, potency_rank + 1) draws of a property rune
DrawPropertyRunes(runes_info, weights, potency, strength, potency_rank) ==
    LET by_level == runes_info.item_property_runes_level_to_items
    IN  UNION {
            IF k >= 1 /\ GetRandomItemRaises(by_level, weights) THEN {Raise("ValueError")}
            ELSE UNION {BuildComposite(runes_info, potency, strength, SelectNotNone(draws))
                        : draws \in [1..k -> _get_random_item(by_level, weights)]}
            : k \in 0..potency_rank}

\* lines 277-278: the potency rank, then the strength rune
DrawStrength(runes_info, weights, potency) ==
    IF ~IsNone(potency) /\ ~IntParses(_get_item_potency_by_name(potency.name))
    THEN {Raise("ValueError")}
    ELSE LET potency_rank == IF IsNone(potency) THEN 0
                             ELSE IntOf(_get_item_potency_by_name(potency.name))
         IN  IF GetRandomItemRaises(runes_info.item_strength_level_to_item, weights)
             THEN {Raise("ValueError")}
             ELSE UNION {DrawPropertyRunes(runes_info, weights, potency, strength, potency_rank)
                         : strength \in _get_random_item(runes_info.item_strength_level_to_item,
                                                         weights)}

\* the outcomes of _get_random_item_with_runes(runes_info, search_request)
_get_random_item_with_runes(runes_info, weights) ==
    IF GetRandomItemRaises(runes_info.item_potency_level_to_item, weights)
    THEN {Raise("ValueError")}
    ELSE UNION {DrawStrength(runes_info, weights, potency)
                : potency \in _get_random_item(runes_info.item_potency_level_to_item, weights)}

----------------------------------------------------------------------------
(* The run: main() of shop_generator.py calling                            *)
(* AonSearchService.get_random_items_by_request                            *)

VARIABLES
    pc,                 \* the position of the run
    raised,             \* the exception that ended the run at pc ("" when none)
    shop_request,       \* the ShopRequest of parse_args
    aon_item_loader,    \* the loader the service was constructed with
    weights_args,       \* the arguments of the _generate_shop_item_weights call
    weights,            \* the map _generate_shop_item_weights returned
    search_request,     \* the GeneralSearchRequest
    result,             \* result of get_random_items_by_request
    items,              \* items of _get_random_equipment, after the filters
    final_items,        \* final_items of _choose_items_by_level_and_rarity
    runes_info,         \* the RunesInfo of _generate_items_with_runes
    generated,          \* the list _generate_items_with_runes is building
    weapon_with_runes   \* the _ItemWithRunes built last

\* the state of scrape_aon.py and scrape_images.py
VARIABLES
    args,                       \* the Args of parse_args, and the program started
    web,                        \* what the remote servers answer
    json_disk,                  \* the .json files below aon-data, by directory and name
    image_disk,                 \* the other files below aon-data, by path
    version,                    \* version of get_all_aon_json_data_and_save
    retrieve_all_revisions,     \* retrieve_all_revisions of get_all_aon_json_data_and_save
    indices,                    \* the indices the loop of line 44 or 70 has yet to fetch
    item_by_category_and_name,  \* of get_all_aon_json_data_by_category_overwrite_old_revisions
    item_by_category,           \* of get_all_aon_json_data_by_category_*
    output_dir,                 \* output_dir of scrape_all_images and get_webp_file_and_save
    json_files,                 \* json_files of scrape_all_images, those not yet opened
    data,                       \* data of scrape_all_images, the items not yet handled
    aon_entity,                 \* aon_entity of get_webp_file_and_save
    image_paths,                \* image_paths of get_webp_file_and_save, those not yet handled
    requested_urls              \* the urls get_webp_file_and_save called requests.get with

scrape_vars == <<args, web, json_disk, image_disk, version, retrieve_all_revisions, indices,
                 item_by_category_and_name, item_by_category, output_dir, json_files, data,
                 aon_entity, image_paths, requested_urls>>

shop_vars == <<pc, raised, shop_request, aon_item_loader, weights_args, weights, search_request,
               result, items, final_items, runes_info, generated, weapon_with_runes>>

vars == <<shop_vars, scrape_vars>>

\* the scrapers are not running
NoScrape ==
    /\ args = NoneValue
    /\ web = NoneValue
    /\ json_disk = {}
    /\ image_disk = {}
    /\ version = NoneValue
    /\ retrieve_all_revisions = FALSE
    /\ indices = <<>>
    /\ item_by_category_and_name = <<>>
    /\ item_by_category = <<>>
    /\ output_dir = NoneValue
    /\ json_files = <<>>
    /\ data = <<>>
    /\ aon_entity = NoneValue
    /\ image_paths = <<>>
    /\ requested_urls = <<>>

\* bounds of the inputs
MaxShopLevel == 3

MaxNumber == 2

MaxOutput == 3

MaxMaxLevel == 4

\* --level: below -2 every level gives the same, empty weight map
ShopLevels == (0 - 3)..MaxShopLevel

\* RarityRequest(common_number, uncommon_number, rare_number, unique_number)
RarityRequest(c, u, r, q) ==
    [common_number |-> c, uncommon_number |-> u, rare_number |-> r, unique_number |-> q]

RarityRequests ==
    {RarityRequest(c, u, r, q) : c \in 0..MaxOutput, u \in 0..MaxOutput,
                                 r \in 0..MaxOutput, q \in 0..MaxOutput}

\* --decay: absent, or 1000.0
Decays == {NoneValue, [tenths |-> 10000]}

\* The requests of the model: the counts of the rarity request and --number
\* add up to at most MaxOutput, and an argument the shop type does not read is 0.
ShopRequests ==
    {r \in [shop_type : ShopTypes, level : ShopLevels, rarity_request : RarityRequests,
            number : 0..MaxNumber, decay : Decays] :
        LET requested == r.rarity_request.common_number + r.rarity_request.uncommon_number
                           + r.rarity_request.rare_number + r.rarity_request.unique_number
        IN  /\ requested + r.number <= MaxOutput
            /\ IsNone(EquipmentShopInfo(r.shop_type)) => requested = 0
            /\ IsNone(ItemWithRunesShopInfo(r.shop_type)) => r.number = 0}

Rarities == <<"common", "uncommon", "rare", "unique">>

RequestedNumber(rarity_request, rarity) ==
    CASE rarity = "common" -> rarity_request.common_number
      [] rarity = "uncommon" -> rarity_request.uncommon_number
      [] rarity = "rare" -> rarity_request.rare_number
      [] rarity = "unique" -> rarity_request.unique_number

\* the number of entries the four get_random_items calls append up to tier t
RequestedUpTo(rarity_request, t) ==
    SumSeq([i \in 1..t |-> RequestedNumber(rarity_request, Rarities[i])])

\* SlotRarity with the four get_random_items calls in the opposite order
SlotRarityUniqueFirst(rarity_request, n) ==
    LET reversed == <<"unique", "rare", "uncommon", "common">>
        UpTo(t) == SumSeq([i \in 1..t |-> RequestedNumber(rarity_request, reversed[i])])
    IN  reversed[CHOOSE t \in 1..4 : n <= UpTo(t) /\ n > UpTo(t - 1)]

\* the rarity whose get_random_items call fills slot n of final_items
SlotRarity(rarity_request, n) ==
    Rarities[CHOOSE t \in 1..4 :
                /\ n <= RequestedUpTo(rarity_request, t)
                /\ n > RequestedUpTo(rarity_request, t - 1)]

\* FilterItems without lines 203-204
FilterItemsWithoutExclude(equipment, traits) ==
    SelectSeq(equipment, LAMBDA item :
        /\ _any_from_list_is_in_list(item.source, Sources)
        /\ \/ Len(traits.required_traits) = 0
           \/ _any_from_list_is_in_list(item.trait, traits.required_traits))

\* lines 199-204: the source and trait filters
FilterItems(equipment, traits) ==
    SelectSeq(equipment, LAMBDA item :
        /\ _any_from_list_is_in_list(item.source, Sources)
        /\ \/ Len(traits.required_traits) = 0
           \/ _any_from_list_is_in_list(item.trait, traits.required_traits)
        /\ ~_any_from_list_is_in_list(item.trait, traits.exclude_traits))

\* lines 206-207: item.url = f"https://2e.aonprd.com{item.url}"
PrefixUrl(item) == [item EXCEPT !.url = <<UrlPrefix>> \o @]

Init ==
    /\ pc = "main"
    /\ raised = ""
    /\ shop_request \in ShopRequests
    /\ aon_item_loader \in Loaders
    /\ weights_args = NoneValue
    /\ weights = EmptyDict
    /\ search_request = NoneValue
    /\ result = <<>>
    /\ items = <<>>
    /\ final_items = <<>>
    /\ runes_info = NoneValue
    /\ generated = <<>>
    /\ weapon_with_runes = NoneValue
    /\ NoScrape

\* where get_random_items_by_request goes after the equipment part
AfterEquipment ==
    IF IsNone(search_request.item_with_runes_search_request) THEN "fix" ELSE "weapon_setup"

\* main(): search_request = create_search_request(shop_request)
Main ==
    /\ pc = "main"
    /\ weights_args' = ShopWeightsArgs(shop_request)
    /\ weights' = _generate_shop_item_weights(weights_args'.shop_level, weights_args'.max_level,
                                              weights_args'.decay)
    /\ search_request' = create_search_request(shop_request)
    /\ pc' = "run"
    /\ UNCHANGED <<raised, shop_request, aon_item_loader, result, items, final_items,
                   runes_info, generated, weapon_with_runes>>
    /\ UNCHANGED scrape_vars

\* get_random_items_by_request with no equipment_search_request
SkipEquipment ==
    /\ pc = "run"
    /\ IsNone(search_request.equipment_search_request)
    /\ pc' = AfterEquipment
    /\ UNCHANGED <<raised, shop_request, aon_item_loader, weights_args, weights,
                   search_request, result, items, final_items, runes_info, generated,
                   weapon_with_runes>>
    /\ UNCHANGED scrape_vars

\* _get_random_equipment up to the call of _choose_items_by_level_and_rarity
LoadEquipment ==
    /\ pc = "run"
    /\ ~IsNone(search_request.equipment_search_request)
    /\ LET traits == search_request.equipment_search_request.traits
           equipment == load_items_by_categories(aon_item_loader, traits.categories)
           filtered == FilterItems(equipment, traits)
       IN  items' = [i \in 1..Len(filtered) |-> PrefixUrl(filtered[i])]
    /\ final_items' = <<>>
    /\ pc' = "draw"
    /\ UNCHANGED <<raised, shop_request, aon_item_loader, weights_args, weights,
                   search_request, result, runes_info, generated, weapon_with_runes>>
    /\ UNCHANGED scrape_vars

TotalRequested == RequestedUpTo(search_request.equipment_search_request.rarity_request, 4)

\* DrawItem taking the drawn item out of items
DrawItemWithoutReplacement ==
    /\ pc = "draw"
    /\ raised = ""
    /\ Len(final_items) < TotalRequested
    /\ LET request == search_request.equipment_search_request
           rarity == SlotRarity(request.rarity_request, Len(final_items) + 1)
           items_by_level == ItemsByLevel(items, rarity)
       IN  IF GetRandomItemRaises(items_by_level, request.level_request)
           THEN /\ raised' = "ValueError"
                /\ UNCHANGED <<final_items, items>>
           ELSE /\ \E item \in _get_random_item(items_by_level, request.level_request) :
                        /\ final_items' = Append(final_items, item)
                        /\ items' = SelectSeq(items, LAMBDA other : other # item)
                /\ UNCHANGED raised
    /\ UNCHANGED <<pc, shop_request, aon_item_loader, weights_args, weights, search_request,
                   result, runes_info, generated, weapon_with_runes>>
    /\ UNCHANGED scrape_vars

\* one _get_random_item call of get_random_items
DrawItem ==
    /\ pc = "draw"
    /\ raised = ""
    /\ Len(final_items) < TotalRequested
    /\ LET request == search_request.equipment_search_request
           rarity == SlotRarity(request.rarity_request, Len(final_items) + 1)
           items_by_level == ItemsByLevel(items, rarity)
       IN  IF GetRandomItemRaises(items_by_level, request.level_request)
           THEN /\ raised' = "ValueError"
                /\ UNCHANGED final_items
           ELSE /\ \E item \in _get_random_item(items_by_level, request.level_request) :
                        final_items' = Append(final_items, item)
                /\ UNCHANGED raised
    /\ UNCHANGED <<pc, shop_request, aon_item_loader, weights_args, weights, search_request,
                   result, items, runes_info, generated, weapon_with_runes>>
    /\ UNCHANGED scrape_vars

\* line 210 and result.extend: the items that are not None, as ItemOutputData
ReturnEquipment ==
    /\ pc = "draw"
    /\ raised = ""
    /\ Len(final_items) = TotalRequested
    /\ LET chosen == SelectNotNone(final_items)
       IN  IF \E i \in 1..Len(chosen) : ~HasMarkdownAttr(chosen[i])
           THEN /\ raised' = "AttributeError"
                /\ UNCHANGED <<pc, result>>
           ELSE /\ result' = result \o [i \in 1..Len(chosen) |-> _to_item_output_data(chosen[i])]
                /\ pc' = AfterEquipment
                /\ UNCHANGED raised
    /\ UNCHANGED <<shop_request, aon_item_loader, weights_args, weights, search_request,
                   items, final_items, runes_info, generated, weapon_with_runes>>
    /\ UNCHANGED scrape_vars

\* the ItemTypeData of _generate_weapon_runes_based_on_request and
\* _generate_armor_runes_based_on_request
CurrentItemTypeData ==
    IF pc \in {"weapon_setup", "weapon_gen"}
    THEN ItemTypeData(<<"W", "e", "a", "p", "o", "n">>, <<"S", "t", "r", "i", "k", "i", "n", "g">>, search_request.item_with_runes_search_request.weapons)
    ELSE ItemTypeData(<<"A", "r", "m", "o", "r">>, <<"R", "e", "s", "i", "l", "i", "e", "n", "t">>, search_request.item_with_runes_search_request.armor)

\* GetRunesInfo called only for an amount above 0
GetRunesInfoForPositiveAmount ==
    /\ pc \in {"weapon_setup", "armor_setup"}
    /\ raised = ""
    /\ IF CurrentItemTypeData.amount = 0
       THEN /\ pc' = IF pc = "weapon_setup" THEN "armor_setup" ELSE "fix"
            /\ UNCHANGED <<raised, runes_info, generated>>
       ELSE IF RunesInfoRaises(aon_item_loader, CurrentItemTypeData)
       THEN /\ raised' = "StopIteration"
            /\ UNCHANGED <<pc, runes_info, generated>>
       ELSE /\ runes_info' = _get_runes_info(aon_item_loader, CurrentItemTypeData)
            /\ generated' = <<>>
            /\ pc' = IF pc = "weapon_setup" THEN "weapon_gen" ELSE "armor_gen"
            /\ UNCHANGED raised
    /\ UNCHANGED <<shop_request, aon_item_loader, weights_args, weights, search_request,
                   result, items, final_items, weapon_with_runes>>
    /\ UNCHANGED scrape_vars

\* _generate_items_with_runes: runes_info = self._get_runes_info(item_type_data)
GetRunesInfo ==
    /\ pc \in {"weapon_setup", "armor_setup"}
    /\ raised = ""
    /\ IF RunesInfoRaises(aon_item_loader, CurrentItemTypeData)
       THEN /\ raised' = "StopIteration"
            /\ UNCHANGED <<pc, runes_info, generated>>
       ELSE /\ runes_info' = _get_runes_info(aon_item_loader, CurrentItemTypeData)
            /\ generated' = <<>>
            /\ pc' = IF pc = "weapon_setup" THEN "weapon_gen" ELSE "armor_gen"
            /\ UNCHANGED raised
    /\ UNCHANGED <<shop_request, aon_item_loader, weights_args, weights, search_request,
                   result, items, final_items, weapon_with_runes>>
    /\ UNCHANGED scrape_vars

\* one _get_random_item_with_runes call of _generate_items_with_runes
GenerateItem ==
    /\ pc \in {"weapon_gen", "armor_gen"}
    /\ raised = ""
    /\ Len(generated) < runes_info.item_type_data.amount
    /\ \E outcome \in _get_random_item_with_runes(
                          runes_info, search_request.item_with_runes_search_request.level_request) :
            IF outcome.raised # ""
            THEN /\ raised' = outcome.raised
                 /\ UNCHANGED <<generated, weapon_with_runes>>
            ELSE /\ generated' = Append(generated, outcome.output)
                 /\ weapon_with_runes' = outcome.made
                 /\ UNCHANGED raised
    /\ UNCHANGED <<pc, shop_request, aon_item_loader, weights_args, weights, search_request,
                   result, items, final_items, runes_info>>
    /\ UNCHANGED scrape_vars

\* _generate_items_with_runes returns and result.extend takes the list
ReturnGenerated ==
    /\ pc \in {"weapon_gen", "armor_gen"}
    /\ raised = ""
    /\ Len(generated) = runes_info.item_type_data.amount
    /\ result' = result \o generated
    /\ pc' = IF pc = "weapon_gen" THEN "armor_setup" ELSE "fix"
    /\ UNCHANGED <<raised, shop_request, aon_item_loader, weights_args, weights,
                   search_request, items, final_items, runes_info, generated,
                   weapon_with_runes>>
    /\ UNCHANGED scrape_vars

\* _fix_aon_price(result); return result
FixAonPrice ==
    /\ pc = "fix"
    /\ result' = _fix_aon_price(result)
    /\ pc' = "done"
    /\ UNCHANGED <<raised, shop_request, aon_item_loader, weights_args, weights,
                   search_request, items, final_items, runes_info, generated,
                   weapon_with_runes>>
    /\ UNCHANGED scrape_vars

Next ==
    \/ Main
    \/ SkipEquipment
    \/ LoadEquipment
    \/ DrawItem
    \/ ReturnEquipment
    \/ GetRunesInfo
    \/ GenerateItem
    \/ ReturnGenerated
    \/ FixAonPrice

Spec == Init /\ [][Next]_vars

----------------------------------------------------------------------------
(* _generate_shop_item_weights on its own: any shop level, also below 0 and *)
(* above max_level, any max_level, several decays                           *)

WeightsArgs ==
    [shop_level : (0 - 4)..(MaxMaxLevel + 3),
     max_level : (0 - 1)..MaxMaxLevel,
     decay : {1, 5, 10000}]

InitWeights ==
    /\ pc = "weights"
    /\ raised = ""
    /\ shop_request = NoneValue
    /\ aon_item_loader = "full"
    /\ weights_args \in WeightsArgs
    /\ weights = EmptyDict
    /\ search_request = NoneValue
    /\ result = <<>>
    /\ items = <<>>
    /\ final_items = <<>>
    /\ runes_info = NoneValue
    /\ generated = <<>>
    /\ weapon_with_runes = NoneValue
    /\ NoScrape

GenerateWeights ==
    /\ pc = "weights"
    /\ weights' = _generate_shop_item_weights(weights_args.shop_level, weights_args.max_level,
                                              weights_args.decay)
    /\ pc' = "weights_done"
    /\ UNCHANGED <<raised, shop_request, aon_item_loader, weights_args, search_request,
                   result, items, final_items, runes_info, generated, weapon_with_runes>>
    /\ UNCHANGED scrape_vars

NextWeights == GenerateWeights

SpecWeights == InitWeights /\ [][NextWeights]_vars

----------------------------------------------------------------------------
(* Properties *)

EquipmentRequest == search_request.equipment_search_request

\* the pool of the sampler holds an item of this rarity at this level
PoolHas(rarity, level) ==
    \E j \in 1..Len(items) : items[j].rarity = rarity /\ items[j].level = level

PoolHasRarity(rarity) == \E j \in 1..Len(items) : items[j].rarity = rarity

\* C1: every item the rarity-bucket sampler puts in a tier's slot has that
\* tier's rarity, a level that is a key of the weight map and at which the pool
\* holds an item of that rarity; a tier with no item in the pool fills its
\* slots with None only.
SampledItemsMatchTier ==
    \A n \in 1..Len(final_items) :
        LET rarity == SlotRarity(EquipmentRequest.rarity_request, n)
            item == final_items[n]
        IN  /\ ~IsNone(item) =>
                /\ item.rarity = rarity
                /\ item.level \in DOMAIN EquipmentRequest.level_request
                /\ PoolHas(rarity, item.level)
            /\ ~PoolHasRarity(rarity) => IsNone(item)

\* the sampler has filled a common slot with an item and left the slot of a
\* tier without pool items empty
SampledAndEmptyTier ==
    /\ pc = "draw"
    /\ Len(final_items) = 2
    /\ ~IsNone(final_items[1])
    /\ ~PoolHasRarity(SlotRarity(EquipmentRequest.rarity_request, 2))
    /\ IsNone(final_items[2])

\* the equipment part of get_random_items_by_request has returned and nothing
\* else was added to result
EquipmentOutputReturned ==
    /\ pc \in {"weapon_setup", "fix", "done"}
    /\ ~IsNone(EquipmentRequest)
    /\ pc = "weapon_setup" \/ IsNone(search_request.item_with_runes_search_request)

\* every tier has a populated level that is a key of the weight map
EveryTierPopulated ==
    \A t \in 1..4 :
        \E j \in 1..Len(items) :
            /\ items[j].rarity = Rarities[t]
            /\ items[j].level \in DOMAIN EquipmentRequest.level_request

\* C2: the sampler returns exactly c+u+r+q entries, and the equipment-only
\* output has at most c+u+r+q items, exactly that many when every tier has a
\* populated level under the weight map.
EquipmentOutputLength ==
    /\ pc = "draw" => raised = ""
    /\ EquipmentOutputReturned =>
        /\ Len(final_items) = TotalRequested
        /\ Len(result) <= TotalRequested
        /\ EveryTierPopulated => Len(result) = TotalRequested

\* C3: a draw whose restricted weight map is empty yields None without an
\* error, and the run goes on to return the items that remain.
NullDrawIsSkipped ==
    /\ pc = "draw"
    /\ \E n \in 1..Len(final_items) :
            /\ IsNone(final_items[n])
            /\ DrawIsEmpty(ItemsByLevel(items, SlotRarity(EquipmentRequest.rarity_request, n)),
                           EquipmentRequest.level_request)
    => raised = ""

\* C4: the weight map's keys are exactly the levels L with 0 <= L <= max_level
\* and L <= shop_level + 2, and where they are keys shop_level weighs 1.0,
\* shop_level + 1 weighs 0.2 and shop_level + 2 weighs 0.05.
WeightMapShape ==
    pc = "weights_done" =>
        LET shop_level == weights_args.shop_level
            max_level == weights_args.max_level
        IN  /\ \A L \in (shop_level - 2)..(shop_level + 4) \cup (0 - 2)..(max_level + 2) :
                    L \in DOMAIN weights <=> (0 <= L /\ L <= max_level /\ L <= shop_level + 2)
            /\ \A L \in DOMAIN weights : 0 <= L /\ L <= max_level /\ L <= shop_level + 2
            /\ shop_level \in DOMAIN weights => weights[shop_level] = [kind |-> "exp", v |-> 0]
            /\ shop_level + 1 \in DOMAIN weights =>
                    weights[shop_level + 1] = [kind |-> "lit", v |-> 20]
            /\ shop_level + 2 \in DOMAIN weights =>
                    weights[shop_level + 2] = [kind |-> "lit", v |-> 5]

\* a map that holds all three of shop_level, shop_level + 1 and shop_level + 2
\* and is cut neither at 0 nor at max_level
WeightMapWithThreeTopLevels ==
    /\ pc = "weights_done"
    /\ weights_args.shop_level >= 1
    /\ weights_args.shop_level + 2 < weights_args.max_level
    /\ DOMAIN weights = 0..(weights_args.shop_level + 2)

\* a composite was produced; it is the last entry of generated
HasComposite == pc \in {"weapon_gen", "armor_gen"} /\ Len(generated) > 0

LastOutput == generated[Len(generated)]

\* the runes selected for the composite built last
SelectedRunes ==
    SelectNotNone(<<weapon_with_runes.potency, weapon_with_runes.strength>>
                    \o weapon_with_runes.property_runes)

\* an entry of result that came from the equipment part
IsPlainEquipment(output) == output.url # <<>>

\* C5 as stated, for the shop levels S >= 0: every item of the output list,
\* plain equipment and composite alike, has level <= S + 2.
OutputLevelAtMostTwoAbove ==
    shop_request.level >= 0 =>
        \A i \in 1..Len(result) : result[i].level <= shop_request.level + 2

\* C5: every plain equipment item of the output list and every rune selected
\* for a composite has level <= S + 2; a composite's level is at most the larger
\* of S + 2 and the level of its base item, which is drawn whatever its level.
RunesAndEquipmentAtMostTwoAbove ==
    /\ \A i \in 1..Len(result) :
            IsPlainEquipment(result[i]) => result[i].level <= shop_request.level + 2
    /\ HasComposite =>
        /\ \A i \in 1..Len(SelectedRunes) : SelectedRunes[i].level <= shop_request.level + 2
        /\ \/ LastOutput.level <= shop_request.level + 2
           \/ LastOutput.level <= weapon_with_runes.item.level

\* the returned list holds a plain equipment item and a composite that is more
\* than two levels above the shop
OutputWithHighComposite ==
    /\ pc = "done"
    /\ \E i \in 1..Len(result) : IsPlainEquipment(result[i])
    /\ \E i \in 1..Len(result) :
            /\ ~IsPlainEquipment(result[i])
            /\ result[i].level > shop_request.level + 2

\* the levels of the parts of the composite built last
PartLevels ==
    {weapon_with_runes.item.level}
        \cup (IF IsNone(weapon_with_runes.potency) THEN {}
              ELSE {weapon_with_runes.potency.level})
        \cup (IF IsNone(weapon_with_runes.strength) THEN {}
              ELSE {weapon_with_runes.strength.level})
        \cup {weapon_with_runes.property_runes[i].level :
                i \in 1..Len(weapon_with_runes.property_runes)}

\* C6: a composite's level is the maximum of the levels of its base item, its
\* potency rune and strength rune where drawn, and its property runes.
CompositeLevelIsMaximum ==
    HasComposite =>
        /\ LastOutput.level \in PartLevels
        /\ \A l \in PartLevels : l <= LastOutput.level

\* a composite whose level is that of a property rune, above its potency rune
\* and base item, with no strength rune
PropertyRuneSetsLevel ==
    /\ HasComposite
    /\ ~IsNone(weapon_with_runes.potency)
    /\ IsNone(weapon_with_runes.strength)
    /\ Len(weapon_with_runes.property_runes) >= 1
    /\ LastOutput.level > weapon_with_runes.potency.level
    /\ LastOutput.level > weapon_with_runes.item.level

\* the catalog prices in copper, by item id
CopperOf(id) ==
    CASE id = "e1" -> 3500
      [] id = "e2" -> 93500
      [] id = "e3" -> 893500
      [] id = "e4" -> 6500
      [] id = "e5" -> 106500
      [] id = "e6" -> 3106500
      [] id = "e7" -> 3000
      [] id = "e8" -> 5595
      [] id = "e9" -> 16000
      [] id = "e10" -> 106000
      [] id = "e11" -> 2056000
      [] id = "e12" -> 34000
      [] id = "e13" -> 344000
      [] id = "e14" -> 4944000
      [] id = "e15" -> 4500
      [] id = "w1" -> 20
      [] id = "a1" -> 0
      [] id = "a2" -> 100000

\* the copper total of the composite built last, each attachment counted
TotalCopper ==
    LET parts == <<weapon_with_runes.item>> \o SelectedRunes
    IN  SumSeq([i \in 1..Len(parts) |-> CopperOf(parts[i].id)])

\* '{gp} gp[, {sp} sp][, {cp} cp]' for gp >= 0 and sp, cp in 0..9
Rendered(gp, sp, cp) ==
    Str(gp) \o <<" ", "g", "p">>
        \o (IF sp > 0 THEN <<",", " ">> \o Str(sp) \o <<" ", "s", "p">> ELSE <<>>)
        \o (IF cp > 0 THEN <<",", " ">> \o Str(cp) \o <<" ", "c", "p">> ELSE <<>>)

\* C7: a composite's price is the copper total of its parts, rendered with the
\* gp, sp <= 9 and cp <= 9 for which 100*gp + 10*sp + cp is that total.
CompositePriceIsSum ==
    HasComposite =>
        \E sp \in 0..9 : \E cp \in 0..9 :
            LET rest == TotalCopper - 10 * sp - cp
            IN  /\ rest >= 0
                /\ rest % 100 = 0
                /\ LastOutput.price_raw = Rendered(rest \div 100, sp, cp)

\* a composite with a potency rune and a property rune whose silver adds up
\* past 9 with the base item's, and whose copper is shown
PriceWithCarry ==
    /\ HasComposite
    /\ weapon_with_runes.item.id = "w1"
    /\ ~IsNone(weapon_with_runes.potency)
    /\ Len(weapon_with_runes.property_runes) = 1
    /\ weapon_with_runes.property_runes[1].id = "e8"
    /\ Contains(LastOutput.price_raw, <<",", " ", "1", " ", "s", "p", ",", " ", "5", " ", "c", "p">>)

\* the +N of a potency rune, by item id
RankOf(potency) ==
    IF IsNone(potency) THEN 0
    ELSE CASE potency.id \in {"e1", "e9"} -> 1
           [] potency.id \in {"e2", "e10"} -> 2
           [] potency.id \in {"e3", "e11"} -> 3

\* C8: a composite carries between 0 and potency_rank property runes, none
\* when no potency rune was drawn.
PropertyRunesWithinRank ==
    HasComposite =>
        Len(weapon_with_runes.property_runes) <= RankOf(weapon_with_runes.potency)

\* a composite with a strength rune, no potency rune and no property rune
StrengthWithoutPotency ==
    /\ HasComposite
    /\ IsNone(weapon_with_runes.potency)
    /\ ~IsNone(weapon_with_runes.strength)
    /\ weapon_with_runes.property_runes = <<>>

\* C9: with the canonical runes in the catalog, generation ends without an
\* exception and returns exactly amount composites, also for an empty pool.
GenerateReturnsAmount ==
    /\ pc \in {"weapon_gen", "armor_gen"} => raised = ""
    /\ pc \in {"armor_setup", "fix", "done"} /\ ~IsNone(runes_info) =>
            Len(generated) = runes_info.item_type_data.amount

\* the six canonical rune names of an item type
CanonicalNames(type) ==
    IF type = "weapon"
    THEN {<<"W", "e", "a", "p", "o", "n", " ", "P", "o", "t", "e", "n", "c", "y", " ", "(", "+", "1", ")">>, <<"W", "e", "a", "p", "o", "n", " ", "P", "o", "t", "e", "n", "c", "y", " ", "(", "+", "2", ")">>, <<"W", "e", "a", "p", "o", "n", " ", "P", "o", "t", "e", "n", "c", "y", " ", "(", "+", "3", ")">>,
          <<"S", "t", "r", "i", "k", "i", "n", "g">>, <<"S", "t", "r", "i", "k", "i", "n", "g", " ", "(", "G", "r", "e", "a", "t", "e", "r", ")">>, <<"S", "t", "r", "i", "k", "i", "n", "g", " ", "(", "M", "a", "j", "o", "r", ")">>}
    ELSE {<<"A", "r", "m", "o", "r", " ", "P", "o", "t", "e", "n", "c", "y", " ", "(", "+", "1", ")">>, <<"A", "r", "m", "o", "r", " ", "P", "o", "t", "e", "n", "c", "y", " ", "(", "+", "2", ")">>, <<"A", "r", "m", "o", "r", " ", "P", "o", "t", "e", "n", "c", "y", " ", "(", "+", "3", ")">>,
          <<"R", "e", "s", "i", "l", "i", "e", "n", "t">>, <<"R", "e", "s", "i", "l", "i", "e", "n", "t", " ", "(", "G", "r", "e", "a", "t", "e", "r", ")">>, <<"R", "e", "s", "i", "l", "i", "e", "n", "t", " ", "(", "M", "a", "j", "o", "r", ")">>}

\* for each loader and type: a canonical name of the type has no exact-name
\* match in the equipment catalog
CanonicalMissingIn ==
    [loader \in Loaders |-> [type \in {"weapon", "armor"} |->
        LET equipment == load_items_by_category(loader, "equipment")
        IN  \E name \in CanonicalNames(type) :
                \A i \in 1..Len(equipment) : equipment[i].name # name]]

CanonicalMissing(type) == CanonicalMissingIn[aon_item_loader][type]

\* the run asked for composites
WithRunes == ~IsNone(search_request) /\ ~IsNone(search_request.item_with_runes_search_request)

\* C10: with a canonical potency or strength rune name missing from the
\* equipment catalog, rune setup of that type raises: the run never gets to
\* generating that type's composites, nor past it.
MissingCanonicalRuneIsFatal ==
    /\ CanonicalMissing("weapon") =>
            /\ pc \notin {"weapon_gen", "armor_setup", "armor_gen"}
            /\ WithRunes => pc \notin {"fix", "done"}
            /\ generated = <<>>
    /\ CanonicalMissing("armor") =>
            /\ pc # "armor_gen"
            /\ WithRunes => pc \notin {"fix", "done"}

\* rune setup of the armor type has ended in StopIteration after the weapon
\* type's composites were generated
ArmorSetupRaised ==
    /\ pc = "armor_setup"
    /\ raised = "StopIteration"
    /\ CanonicalMissing("armor")
    /\ ~CanonicalMissing("weapon")

----------------------------------------------------------------------------
(* Lines 288-301 of _get_random_item_with_runes on their own: the          *)
(* ItemOutputData of a given _ItemWithRunes, for any combination of runes  *)
(* of the catalog and for base items with any price text                   *)

MaxGp == 12

MaxPropertyRunes == 2

\* a price text of the catalog's format: '100 gp, 10 sp, 1 cp' or '100 gp', etc
PriceText(gp, sp, cp) ==
    Str(gp) \o <<" ", "g", "p">>
        \o (IF sp > 0 THEN <<",", " ">> \o Str(sp) \o <<" ", "s", "p">> ELSE <<>>)
        \o (IF cp > 0 THEN <<",", " ">> \o Str(cp) \o <<" ", "c", "p">> ELSE <<>>)

WellFormedPrices == {PriceText(gp, sp, cp) : gp \in 0..MaxGp, sp \in 0..9, cp \in 0..9}

\* price_raw values that are not of that format
OtherPrices == {<<>>, <<"5">>, <<"5", " ", "p", "p">>, <<"a", "b", "c", " ", "g", "p">>, <<"V", "a", "r", "i", "e", "s">>, <<"2", " ", "g", "p", ",", " ", "5">>}

\* a base item with the given price_raw
PricedItem(price_raw) ==
    AonItemJson("w2", <<"C", "l", "u", "b">>, "common", 0, price_raw, "weapon", <<>>,
                <<"Player Core">>, <<>>)

\* the lists of at most n property runes out of runes
RECURSIVE RuneLists(_, _)
RuneLists(runes, n) ==
    IF n = 0 THEN {<<>>}
    ELSE LET shorter == RuneLists(runes, n - 1)
         IN  shorter \cup {Append(l, r) : l \in {s \in shorter : Len(s) = n - 1}, r \in runes}

OptionalRune(runes) == {NoneValue} \cup runes

\* potency_rank of line 277
PotencyRank(potency) ==
    IF IsNone(potency) THEN 0 ELSE IntOf(_get_item_potency_by_name(potency.name))

\* the _ItemWithRunes line 288 can build from the catalog for one item type
CompositesOf(item_type_data, bases, potencies, strengths, property_runes) ==
    {ItemWithRunes(base, potency, strength, item_type_data, runes) :
        base \in bases, potency \in OptionalRune(potencies),
        strength \in OptionalRune(strengths),
        runes \in RuneLists(property_runes, MaxPropertyRunes)}

Composites ==
    LET all ==
            CompositesOf(ItemTypeData(<<"W", "e", "a", "p", "o", "n">>, <<"S", "t", "r", "i", "k", "i", "n", "g">>, 1), {Dagger},
                         {WeaponPotency1, WeaponPotency2, WeaponPotency3},
                         {Striking, StrikingGreater, StrikingMajor}, {Fanged, Returning})
            \cup CompositesOf(ItemTypeData(<<"A", "r", "m", "o", "r">>, <<"R", "e", "s", "i", "l", "i", "e", "n", "t">>, 1), {Hide, Aegis},
                         {ArmorPotency1, ArmorPotency2, ArmorPotency3},
                         {Resilient, ResilientGreater, ResilientMajor}, {Slick})
            \cup CompositesOf(ItemTypeData(<<"W", "e", "a", "p", "o", "n">>, <<"S", "t", "r", "i", "k", "i", "n", "g">>, 1),
                         {PricedItem(price_raw) : price_raw \in WellFormedPrices \cup OtherPrices},
                         {}, {}, {})
    IN  {iwr \in all : Len(iwr.property_runes) <= PotencyRank(iwr.potency)}

InitComposite ==
    /\ pc = "build"
    /\ raised = ""
    /\ shop_request = NoneValue
    /\ aon_item_loader = "full"
    /\ weights_args = NoneValue
    /\ weights = EmptyDict
    /\ search_request = NoneValue
    /\ result = <<>>
    /\ items = <<>>
    /\ final_items = <<>>
    /\ runes_info = NoneValue
    /\ generated = <<>>
    /\ weapon_with_runes \in Composites
    /\ NoScrape

\* lines 296-301: return ItemOutputData(name=..., rarity='unique', level=..., price_raw=...)
BuildOutput ==
    /\ pc = "build"
    /\ raised = ""
    /\ IF CostError(weapon_with_runes) # ""
       THEN /\ raised' = CostError(weapon_with_runes)
            /\ UNCHANGED <<pc, generated>>
       ELSE /\ generated' = <<ItemOutputData(get_name(weapon_with_runes), "unique",
                                             get_level(weapon_with_runes),
                                             get_gp_cost(weapon_with_runes), <<>>, NoneValue)>>
            /\ pc' = "built"
            /\ UNCHANGED raised
    /\ UNCHANGED <<shop_request, aon_item_loader, weights_args, weights, search_request,
                   result, items, final_items, runes_info, weapon_with_runes>>
    /\ UNCHANGED scrape_vars

NextComposite == BuildOutput

SpecComposite == InitComposite /\ [][NextComposite]_vars

\* C11: a malformed or missing price text of a part costs 0 and never raises;
\* generation of the composite completes.
MalformedPriceCostsNothing ==
    pc \in {"build", "built"} =>
        /\ raised = ""
        /\ pc = "built" /\ weapon_with_runes.item.price_raw \in OtherPrices =>
                generated[1].price_raw = <<"0", " ", "g", "p">>

\* C15: a canonical price '{gp} gp[, {sp} sp][, {cp} cp]' converted to copper and
\* rendered back is the same text: a composite whose only priced part has a
\* canonical price shows exactly that price.
PriceRoundTrip ==
    /\ pc = "built"
    /\ weapon_with_runes.item.id = "w2"
    /\ weapon_with_runes.item.price_raw \in WellFormedPrices
    => generated[1].price_raw = weapon_with_runes.item.price_raw

\* the composite of a base item priced '12 gp, 3 sp' has been built
RoundTripOfTwelveGoldThreeSilver ==
    /\ pc = "built"
    /\ weapon_with_runes.item.price_raw = <<"1", "2", " ", "g", "p", ",", " ", "3", " ", "s", "p">>
    /\ generated[1].price_raw = <<"1", "2", " ", "g", "p", ",", " ", "3", " ", "s", "p">>

\* the '+N' of a potency rune, by item id
PotencyToken(potency) ==
    CASE potency.id \in {"e1", "e9"} -> <<"+", "1">>
      [] potency.id \in {"e2", "e10"} -> <<"+", "2">>
      [] potency.id \in {"e3", "e11"} -> <<"+", "3">>

\* the strength token of a strength rune, by item id
StrengthToken(strength) ==
    CASE strength.id = "e4" -> <<"S", "t", "r", "i", "k", "i", "n", "g">>
      [] strength.id = "e5" -> <<"G", "r", "e", "a", "t", "e", "r", " ", "S", "t", "r", "i", "k", "i", "n", "g">>
      [] strength.id = "e6" -> <<"M", "a", "j", "o", "r", " ", "S", "t", "r", "i", "k", "i", "n", "g">>
      [] strength.id = "e12" -> <<"R", "e", "s", "i", "l", "i", "e", "n", "t">>
      [] strength.id = "e13" -> <<"G", "r", "e", "a", "t", "e", "r", " ", "R", "e", "s", "i", "l", "i", "e", "n", "t">>
      [] strength.id = "e14" -> <<"M", "a", "j", "o", "r", " ", "R", "e", "s", "i", "l", "i", "e", "n", "t">>

RECURSIVE EachFollowedBySpace(_)
EachFollowedBySpace(names) ==
    IF names = <<>> THEN <<>>
    ELSE Head(names) \o <<" ">> \o EachFollowedBySpace(Tail(names))

\* potency token, strength token, property rune names in draw order, base name
ExpectedName(iwr) ==
    EachFollowedBySpace(
        (IF IsNone(iwr.potency) THEN <<>> ELSE <<PotencyToken(iwr.potency)>>)
        \o (IF IsNone(iwr.strength) THEN <<>> ELSE <<StrengthToken(iwr.strength)>>)
        \o [i \in 1..Len(iwr.property_runes) |-> iwr.property_runes[i].name])
    \o iwr.item.name

\* C16: the name of a composite is the potency token, the strength token, the
\* property rune names in draw order and the base item name, each present
\* component followed by one space; without runes it is the base item's name.
CompositeNameIsConcatenation ==
    pc = "built" => generated[1].name = ExpectedName(weapon_with_runes)

\* a weapon with all four kinds of component has been named
FullyRunedWeaponNamed ==
    /\ pc = "built"
    /\ generated[1].name = <<"+", "3", " ", "M", "a", "j", "o", "r", " ", "S", "t", "r", "i", "k", "i", "n", "g", " ", "F", "a", "n", "g", "e", "d", " ", "R", "e", "t", "u", "r", "n", "i", "n", "g", " ", "D", "a", "g", "g", "e", "r">>

----------------------------------------------------------------------------
(* The run as main() starts it by default: without --decay, over a catalog  *)
(* whose objects carry the markdown attribute _to_item_output_data reads    *)

InitOutput ==
    /\ Init
    /\ IsNone(shop_request.decay)
    /\ aon_item_loader \in {"full", "no_weapon_rune", "no_armor_rune"}

SpecOutput == InitOutput /\ [][Next]_vars

EndsWith(s, t) == Len(t) <= Len(s) /\ MatchesAt(s, t, Len(s) - Len(t) + 1)

\* the group of an output item: 1..4 a plain item of the tier, 5 a weapon
\* composite, 6 an armor composite
OutputGroup(output) ==
    IF output.url # <<>>
    THEN CHOOSE t \in 1..4 : Rarities[t] = output.rarity
    ELSE IF EndsWith(output.name, Dagger.name) THEN 5 ELSE 6

\* C12: the output list holds the plain equipment results first, common, then
\* uncommon, then rare, then unique, then the weapon composites, then the armor
\* composites; plain results only with an equipment sub-request, composites only
\* with an item-with-runes sub-request.
OutputIsOrdered ==
    pc # "main" /\ result # <<>> =>
        LET groups == [i \in 1..Len(result) |-> OutputGroup(result[i])]
        IN  /\ \A i, j \in 1..Len(result) : i < j => groups[i] <= groups[j]
            /\ IsNone(search_request.equipment_search_request) =>
                    \A i \in 1..Len(result) : groups[i] >= 5
            /\ IsNone(search_request.item_with_runes_search_request) =>
                    \A i \in 1..Len(result) : groups[i] <= 4

\* a returned list with a plain item, a weapon composite and an armor composite
OutputOfThreeGroups ==
    /\ pc = "done"
    /\ Len(result) = 3
    /\ OutputGroup(result[1]) <= 4
    /\ OutputGroup(result[2]) = 5
    /\ OutputGroup(result[3]) = 6

\* a returned list with plain items of two tiers, one of them after a null draw
OutputOfTwoTiers ==
    /\ pc = "done"
    /\ Len(result) = 2
    /\ Len(final_items) = 3
    /\ OutputGroup(result[1]) < OutputGroup(result[2])
    /\ OutputGroup(result[2]) <= 4

Range(s) == {s[i] : i \in 1..Len(s)}

\* the items of the catalog files, as written in the files
CatalogItems == Range(EquipmentFile) \cup Range(WeaponFile) \cup Range(ArmorFile)

\* the catalog items of a requested category that pass the source and trait
\* filters of the request
Passing(traits) ==
    {c \in CatalogItems :
        /\ c.category \in Range(traits.categories)
        /\ Range(c.source) \cap Range(Sources) # {}
        /\ traits.required_traits # <<>> =>
                Range(c.trait) \cap Range(traits.required_traits) # {}
        /\ Range(c.trait) \cap Range(traits.exclude_traits) = {}}

\* C13: every plain equipment item drawn or put in the output comes from a
\* requested category, lists an allow-listed source, carries one of the
\* required traits unless none is required, and carries no excluded trait.
PlainItemsPassFilters ==
    /\ final_items # <<>> \/ result # <<>>
    /\ ~IsNone(search_request)
    /\ ~IsNone(search_request.equipment_search_request)
    =>
            LET passing == Passing(search_request.equipment_search_request.traits)
                Passed(item) ==
                    \E c \in passing : <<UrlPrefix>> \o c.url = item.url /\ c.name = item.name
            IN  /\ \A i \in 1..Len(final_items) :
                        ~IsNone(final_items[i]) => Passed(final_items[i])
                /\ \A i \in 1..Len(result) :
                        result[i].url # <<>> => Passed(result[i])

\* the artifact shop, which requires Magical and excludes Consumable and Tattoo,
\* returned the Amulet
ArtifactShopReturnedAmulet ==
    /\ pc = "done"
    /\ shop_request.shop_type = "artifact"
    /\ \E i \in 1..Len(result) : result[i].name = Amulet.name

\* what the first draw of a tier chooses from, for each loader and shop type
FirstDrawPool ==
    [loader \in Loaders |-> [shop_type \in ShopTypes |->
        LET traits == EquipmentShopInfo(shop_type)
        IN  IF IsNone(traits) THEN <<>>
            ELSE LET filtered == FilterItems(load_items_by_categories(loader, traits.categories),
                                             traits)
                 IN  [i \in 1..Len(filtered) |-> PrefixUrl(filtered[i])]]]

\* what the first draw of a composite chooses from, for each loader and item type
FirstDrawRunes ==
    [loader \in Loaders |-> [type \in {"weapon", "armor"} |->
        LET item_type_data == IF type = "weapon" THEN ItemTypeData(<<"W", "e", "a", "p", "o", "n">>, <<"S", "t", "r", "i", "k", "i", "n", "g">>, 0)
                              ELSE ItemTypeData(<<"A", "r", "m", "o", "r">>, <<"R", "e", "s", "i", "l", "i", "e", "n", "t">>, 0)
        IN  IF RunesInfoRaises(loader, item_type_data) THEN NoneValue
            ELSE _get_runes_info(loader, item_type_data)]]

\* C14: draws are with replacement: whatever the earlier draws returned, the
\* n-th draw of a tier chooses from the pool, hence the (rarity, level) buckets,
\* of the first draw, and the n-th draw of a composite from the rune maps and
\* base pool of the first; nothing is removed or added.
DrawsKeepBuckets ==
    /\ pc = "draw" => items = FirstDrawPool[aon_item_loader][shop_request.shop_type]
    /\ pc \in {"weapon_gen", "armor_gen"} =>
            [runes_info EXCEPT !.item_type_data.amount = 0]
                = FirstDrawRunes[aon_item_loader][IF pc = "weapon_gen" THEN "weapon" ELSE "armor"]

\* the same item was returned by two draws of one tier
SameItemDrawnTwice ==
    /\ Len(final_items) >= 2
    /\ ~IsNone(final_items[1])
    /\ final_items[1] = final_items[2]
    /\ SlotRarity(search_request.equipment_search_request.rarity_request, 1)
         = SlotRarity(search_request.equipment_search_request.rarity_request, 2)

\* the objects the loader supplied, as loaded
LoadedObjects ==
    UNION {Range(load_items_by_category(aon_item_loader, category)) : category \in Categories}

\* C17: a run changes no field of an item object supplied by the catalog
\* collaborator: every object the run holds in items, which are the loader's
\* own objects, equals its loaded value, url included.
CatalogObjectsUnchanged ==
    \A i \in 1..Len(items) : items[i] \in LoadedObjects

----------------------------------------------------------------------------
(* _fix_aon_price on its own: any output list of plain items, with and     *)
(* without price and markdown, and of composites                           *)

MaxItems == 2

\* price_raw values of output items
OutputPrices == <<<<>>, <<"4", " ", "g", "p">>, <<"P", "r", "i", "c", "e", " ", "5", " ", "g", "p">>>>

\* markdown values of output items
OutputMarkdowns ==
    <<NoneValue, <<>>, <<"A", " ", "v", "i", "a", "l", ".">>, <<"*", "*", "P", "r", "i", "c", "e", "*", "*", " ", "3", "0", " ", "g", "p">>, <<"I", "t", " ", "c", "o", "s", "t", "s", " ", "*", "*", "P", "r", "i", "c", "e", "*", "*", " ", "3", "0", " ", "g", "p", " ", "5", "s", "p", " ", "2", "c", "p", ".">>,
      <<"*", "*", "P", "r", "i", "c", "e", "*", "*", " ", "v", "a", "r", "i", "e", "s">>>>

\* the output items of the lists: a plain item for each price and markdown,
\* and a composite
OutputItem(k) ==
    IF k = 0
    THEN ItemOutputData(<<"+", "1", " ", "D", "a", "g", "g", "e", "r">>, "unique", 2, <<"3", "5", " ", "g", "p", ",", " ", "2", " ", "s", "p">>, <<>>, NoneValue)
    ELSE ItemOutputData(<<"A", "m", "u", "l", "e", "t">>, "rare", 4, OutputPrices[((k - 1) \div Len(OutputMarkdowns)) + 1],
                        <<UrlPrefix, "/e19">>, OutputMarkdowns[((k - 1) % Len(OutputMarkdowns)) + 1])

OutputItemCount == Len(OutputPrices) * Len(OutputMarkdowns)

InitFix ==
    /\ pc = "fix"
    /\ raised = ""
    /\ shop_request = NoneValue
    /\ aon_item_loader = "full"
    /\ weights_args = NoneValue
    /\ weights = EmptyDict
    /\ search_request = NoneValue
    /\ \E n \in 0..MaxItems : \E choice \in [1..n -> 0..OutputItemCount] :
            result = [i \in 1..n |-> OutputItem(choice[i])]
    /\ items = <<>>
    /\ final_items = <<>>
    /\ runes_info = NoneValue
    /\ generated = <<>>
    /\ weapon_with_runes = NoneValue
    /\ NoScrape

NextFix == FixAonPrice

SpecFix == InitFix /\ [][NextFix]_vars

\* C18: the price back-fill never raises and only fills gaps: an item with a
\* non-empty price keeps it, an item without descriptive text is untouched, an
\* item with an empty price and no price pattern in its text keeps an empty
\* price, and no other field of any item changes.
BackFillOnlyFillsGaps ==
    [][pc = "fix" =>
        /\ raised' = ""
        /\ Len(result') = Len(result)
        /\ \A i \in 1..Len(result) :
            /\ [result'[i] EXCEPT !.price_raw = <<>>] = [result[i] EXCEPT !.price_raw = <<>>]
            /\ result[i].price_raw # <<>> => result'[i].price_raw = result[i].price_raw
            /\ IsNone(result[i].markdown) => result'[i] = result[i]
            /\ /\ result[i].price_raw = <<>>
               /\ ~IsNone(result[i].markdown)
               /\ ~Contains(result[i].markdown, <<"*", "*", "P", "r", "i", "c", "e", "*", "*", " ">>)
               => result'[i].price_raw = <<>>]_vars

----------------------------------------------------------------------------
(* create_search_request on its own: any --number of rune items            *)

MaxSplitNumber == 9

InitSplit ==
    /\ pc = "main"
    /\ raised = ""
    /\ shop_request \in [shop_type : ShopTypes, level : ShopLevels,
                         rarity_request : {RarityRequest(0, 0, 0, 0)},
                         number : 0..MaxSplitNumber, decay : {NoneValue}]
    /\ aon_item_loader = "full"
    /\ weights_args = NoneValue
    /\ weights = EmptyDict
    /\ search_request = NoneValue
    /\ result = <<>>
    /\ items = <<>>
    /\ final_items = <<>>
    /\ runes_info = NoneValue
    /\ generated = <<>>
    /\ weapon_with_runes = NoneValue
    /\ NoScrape

NextSplit == Main

SpecSplit == InitSplit /\ [][NextSplit]_vars

\* C20: the requested number N of rune items is split by truncation: (N, 0) for
\* the weapon shop, (0, N) for the armor shop, (floor(N/2), floor(N/2)) for the
\* any and blacksmith-magic shops; weapons + armor is at most N, and N - 1 in
\* the two half-and-half shops when N is odd.
NumberIsSplitByTruncation ==
    pc = "run" /\ ~IsNone(search_request.item_with_runes_search_request) =>
        LET N == shop_request.number
            weapons == search_request.item_with_runes_search_request.weapons
            armor == search_request.item_with_runes_search_request.armor
            halves == shop_request.shop_type \in {"any", "blacksmith-magic"}
        IN  /\ shop_request.shop_type \in {"weapon", "armor", "any", "blacksmith-magic"}
            /\ shop_request.shop_type = "weapon" => weapons = N /\ armor = 0
            /\ shop_request.shop_type = "armor" => weapons = 0 /\ armor = N
            /\ halves => /\ weapons = armor
                          /\ 2 * weapons <= N
                          /\ N < 2 * weapons + 2
            /\ weapons + armor <= N
            /\ halves /\ N % 2 = 1 => weapons + armor = N - 1

\* the any shop split 7 into 3 weapons and 3 armors
SevenSplitIntoThreeAndThree ==
    /\ pc = "run"
    /\ shop_request.shop_type = "any"
    /\ shop_request.number = 7
    /\ search_request.item_with_runes_search_request.weapons = 3
    /\ search_request.item_with_runes_search_request.armor = 3

----------------------------------------------------------------------------
(* The run, continued *)

\* C19: rune setup runs for Weapon and then for Armor whatever the amounts: a
\* run with an item-with-runes sub-request whose armor amount is 0 and whose
\* catalog lacks a canonical Armor rune never returns a list (and likewise for
\* Weapon), and a run that passed a setup holds that type's RunesInfo also
\* when its amount is 0.
SetupRunsForEveryAmount ==
    WithRunes =>
        LET request == search_request.item_with_runes_search_request
        IN  /\ request.armor = 0 /\ CanonicalMissing("armor") =>
                    pc \notin {"armor_gen", "fix", "done"}
            /\ request.weapons = 0 /\ CanonicalMissing("weapon") =>
                    pc \notin {"weapon_gen", "armor_setup", "armor_gen", "fix", "done"}
            /\ pc \in {"weapon_gen", "armor_setup"} =>
                    /\ ~IsNone(runes_info)
                    /\ runes_info.item_type_data.potency_name = <<"W", "e", "a", "p", "o", "n">>
                    /\ runes_info.item_type_data.amount = request.weapons
            /\ pc \in {"armor_gen", "fix", "done"} =>
                    /\ ~IsNone(runes_info)
                    /\ runes_info.item_type_data.potency_name = <<"A", "r", "m", "o", "r">>
                    /\ runes_info.item_type_data.amount = request.armor

\* a weapon-only request (armor = 0) failed in the armor setup after its weapon
\* composites had been put in the result
WeaponOnlyRequestFailedInArmorSetup ==
    /\ WithRunes
    /\ search_request.item_with_runes_search_request.armor = 0
    /\ search_request.item_with_runes_search_request.weapons >= 1
    /\ pc = "armor_setup"
    /\ raised = "StopIteration"
    /\ Len(result) = search_request.item_with_runes_search_request.weapons


----------------------------------------------------------------------------
(* scrape_aon.py                                                           *)
(*                                                                         *)
(* A dict is a sequence of [key, value] records in insertion order.  The   *)
(* directory 'aon-data/<version>' is named by <version>, a .json file by   *)
(* its directory and the category before '.json'.                          *)

DictHas(d, k) == \E i \in DOMAIN d : d[i].key = k

\* d[k]
DictGet(d, k) == d[CHOOSE i \in DOMAIN d : d[i].key = k].value

\* d[k] = v: a new key goes last, a known key keeps its place
DictSet(d, k, v) ==
    IF DictHas(d, k)
    THEN [i \in DOMAIN d |-> IF d[i].key = k THEN [key |-> k, value |-> v] ELSE d[i]]
    ELSE Append(d, [key |-> k, value |-> v])

\* ord(c) of the characters of a release date
Ord(c) == IF c = "-" THEN 45 ELSE 48 + DigitValue(c)

RECURSIVE StrGreater(_, _)
\* a > b of two str
StrGreater(a, b) ==
    IF a = <<>> THEN FALSE
    ELSE IF b = <<>> THEN TRUE
    ELSE IF Head(a) = Head(b) THEN StrGreater(Tail(a), Tail(b))
    ELSE Ord(Head(a)) > Ord(Head(b))

\* the body of the loops of lines 45-46 with >= in place of > at line 57
OverwriteOldRevisionOnTies(by_category_and_name, item) ==
    LET category == item.category
        name == item.name
        with_category == IF DictHas(by_category_and_name, category)
                         THEN by_category_and_name
                         ELSE DictSet(by_category_and_name, category, <<>>)
        item_by_name == DictGet(with_category, category)
        inserted == IF DictHas(item_by_name, name) THEN item_by_name
                    ELSE DictSet(item_by_name, name, item)
        existing_release_date == DictGet(inserted, name).release_date
        replaced == IF ~StrGreater(existing_release_date, item.release_date)
                    THEN DictSet(inserted, name, item)
                    ELSE inserted
    IN  DictSet(with_category, category, replaced)

\* the body of the loops of lines 45-46, for one item of one index
OverwriteOldRevision(by_category_and_name, item) ==
    LET category == item.category
        name == item.name
        with_category == IF DictHas(by_category_and_name, category)
                         THEN by_category_and_name
                         ELSE DictSet(by_category_and_name, category, <<>>)
        item_by_name == DictGet(with_category, category)
        inserted == IF DictHas(item_by_name, name) THEN item_by_name
                    ELSE DictSet(item_by_name, name, item)
        existing_release_date == DictGet(inserted, name).release_date
        replaced == IF StrGreater(item.release_date, existing_release_date)
                    THEN DictSet(inserted, name, item)
                    ELSE inserted
    IN  DictSet(with_category, category, replaced)

RECURSIVE OverwriteOldRevisions(_, _)
\* the loop of line 46 over the data of one index
OverwriteOldRevisions(by_category_and_name, entries) ==
    IF entries = <<>> THEN by_category_and_name
    ELSE OverwriteOldRevisions(OverwriteOldRevision(by_category_and_name, Head(entries)),
                               Tail(entries))

\* item_by_category[category].append(item) on a defaultdict(list)
AppendRevision(by_category, item) ==
    LET category == item.category
        with_category == IF DictHas(by_category, category) THEN by_category
                         ELSE DictSet(by_category, category, <<>>)
    IN  DictSet(with_category, category, Append(DictGet(with_category, category), item))

RECURSIVE AppendRevisions(_, _)
\* the loop of line 72 over the data of one index
AppendRevisions(by_category, entries) ==
    IF entries = <<>> THEN by_category
    ELSE AppendRevisions(AppendRevision(by_category, Head(entries)), Tail(entries))

\* list(d.values())
DictValues(d) == [i \in DOMAIN d |-> d[i].value]

\* {category: list(items.values()) for category, items in ...items()}
ListsByCategory(by_category_and_name) ==
    [i \in DOMAIN by_category_and_name |->
        [key |-> by_category_and_name[i].key,
         value |-> DictValues(by_category_and_name[i].value)]]

\* get_json answers with status 200
IndexIsServed(aon_version) == DictHas(web.index, aon_version)

\* get_aon_pf2e_indices, where the index is served
get_aon_pf2e_indices(aon_version) == DictGet(web.index, aon_version)

\* get_aon_json_data: [] when the request fails
get_aon_json_data(index_id) ==
    IF DictHas(web.data, index_id) THEN DictGet(web.data, index_id) ELSE <<>>

\* remove_files: the .json files the call leaves
remove_files(disk, directory) == {f \in disk : f.dir # directory}

\* the files written by the loop of line 96
WrittenFiles(directory, by_category) ==
    {[dir |-> directory, name |-> by_category[i].key, content |-> by_category[i].value] :
        i \in DOMAIN by_category}

\* the shop generator is not running
shop_state == <<shop_request, aon_item_loader, weights_args, weights, search_request, result,
                items, final_items, runes_info, generated, weapon_with_runes>>

NoShop ==
    /\ shop_request = NoneValue
    /\ aon_item_loader = "full"
    /\ weights_args = NoneValue
    /\ weights = EmptyDict
    /\ search_request = NoneValue
    /\ result = <<>>
    /\ items = <<>>
    /\ final_items = <<>>
    /\ runes_info = NoneValue
    /\ generated = <<>>
    /\ weapon_with_runes = NoneValue

\* the locals of scrape_all_images and get_webp_file_and_save
image_pass == <<output_dir, json_files, data, aon_entity, image_paths, requested_urls>>

\* the locals of get_all_aon_json_data_and_save and the functions it calls
scrape_pass == <<version, retrieve_all_revisions, indices, item_by_category_and_name,
                 item_by_category>>

\* scrape_aon.main
ScrapeAonMain ==
    /\ pc = "scrape_aon"
    /\ raised = ""
    /\ version' = args.aon_version
    /\ retrieve_all_revisions' = args.retrieve_all_revisions
    /\ pc' = "get_all_aon_json_data_and_save"
    /\ UNCHANGED <<raised, shop_state, args, web, json_disk, image_disk, indices,
                   item_by_category_and_name, item_by_category, image_pass>>

\* get_all_aon_json_data_and_save up to the request for the index of the version
GetAllAonJsonDataAndSave ==
    /\ pc = "get_all_aon_json_data_and_save"
    /\ raised = ""
    /\ version' = <<"a", "o", "n">> \o version
    /\ json_disk' = remove_files(json_disk, version')
    /\ item_by_category_and_name' = <<>>
    /\ item_by_category' = <<>>
    /\ IF IndexIsServed(version')
       THEN /\ indices' = get_aon_pf2e_indices(version')
            /\ pc' = "get_aon_json_data"
            /\ UNCHANGED raised
       ELSE /\ raised' = "Exception"
            /\ UNCHANGED <<pc, indices>>
    /\ UNCHANGED <<shop_state, args, web, image_disk, retrieve_all_revisions, image_pass>>

\* one turn of the loop over the indices, of line 44 or of line 70
GetAonJsonData ==
    /\ pc = "get_aon_json_data"
    /\ raised = ""
    /\ indices # <<>>
    /\ indices' = Tail(indices)
    /\ IF retrieve_all_revisions
       THEN /\ item_by_category' = AppendRevisions(item_by_category,
                                                   get_aon_json_data(Head(indices)))
            /\ UNCHANGED item_by_category_and_name
       ELSE /\ item_by_category_and_name' =
                    OverwriteOldRevisions(item_by_category_and_name,
                                          get_aon_json_data(Head(indices)))
            /\ UNCHANGED item_by_category
    /\ UNCHANGED <<pc, raised, shop_state, args, web, json_disk, image_disk, version,
                   retrieve_all_revisions, image_pass>>

\* the return of get_all_aon_json_data_by_category and the loop of line 96
SaveJson ==
    /\ pc = "get_aon_json_data"
    /\ raised = ""
    /\ indices = <<>>
    /\ item_by_category' = IF retrieve_all_revisions THEN item_by_category
                           ELSE ListsByCategory(item_by_category_and_name)
    /\ json_disk' = {f \in json_disk :
                        ~(f.dir = version /\ DictHas(item_by_category', f.name))}
                    \cup WrittenFiles(version, item_by_category')
    /\ pc' = IF args.program = "scrape_aon" THEN "done" ELSE "list_again"
    /\ UNCHANGED <<raised, shop_state, args, web, image_disk, version, retrieve_all_revisions,
                   indices, item_by_category_and_name, image_pass>>

----------------------------------------------------------------------------
(* python scrape_aon.py [--retrieve-all-revisions] against a server with   *)
(* two indices                                                             *)

MaxEntries == 3

ScrapedCategories == {"weapon", "equipment"}

ItemNames == {"dagger", "torch"}

ReleaseDates == {<<"2", "0", "1", "9", "-", "0", "8", "-", "0", "1">>, <<"2", "0", "2", "3", "-", "1", "1", "-", "1", "5">>}

\* the entries the two indices hold together, each one with its own id
EntryStreams ==
    UNION {{[i \in 1..n |-> [id |-> i, category |-> c[i], name |-> m[i], release_date |-> r[i]]] :
                c \in [1..n -> ScrapedCategories], m \in [1..n -> ItemNames],
                r \in [1..n -> ReleaseDates]} : n \in 0..MaxEntries}

DefaultVersion == <<"3", "9">>

\* the server: the index of aon39 lists two indices, the first with at most one
\* entry, the second of which may fail
Webs ==
    UNION {{[index |-> <<[key |-> <<"a", "o", "n">> \o DefaultVersion,
                          value |-> <<"index-1", "index-2">>]>>,
             data |-> <<[key |-> "index-1", value |-> SubSeq(s, 1, k)],
                        [key |-> "index-2", value |-> SubSeq(s, k + 1, Len(s))]>>,
             image |-> <<>>] : k \in 0..1 \cap 0..Len(s)} : s \in EntryStreams}
    \cup
    {[index |-> <<[key |-> <<"a", "o", "n">> \o DefaultVersion, value |-> <<"index-1", "index-2">>]>>,
      data |-> <<[key |-> "index-1", value |-> s]>>,
      image |-> <<>>] : s \in {t \in EntryStreams : Len(t) <= 1}}
    \cup
    {[index |-> <<>>, data |-> <<>>, image |-> <<>>]}

\* a file an earlier run left in aon-data/aon39
StaleFile ==
    [dir |-> <<"a", "o", "n">> \o DefaultVersion, name |-> "armor",
     content |-> <<[id |-> 0, category |-> "armor", name |-> "buckler",
                    release_date |-> <<"2", "0", "1", "9", "-", "0", "8", "-", "0", "1">>]>>]

InitScrape ==
    /\ pc = "scrape_aon"
    /\ raised = ""
    /\ NoShop
    /\ args \in [program : {"scrape_aon"}, aon_version : {DefaultVersion},
                 retrieve_all_revisions : BOOLEAN]
    /\ web \in Webs
    /\ json_disk = {StaleFile}
    /\ image_disk = {}
    /\ version = NoneValue
    /\ retrieve_all_revisions = FALSE
    /\ indices = <<>>
    /\ item_by_category_and_name = <<>>
    /\ item_by_category = <<>>
    /\ output_dir = NoneValue
    /\ json_files = <<>>
    /\ data = <<>>
    /\ aon_entity = NoneValue
    /\ image_paths = <<>>
    /\ requested_urls = <<>>

NextScrape ==
    \/ ScrapeAonMain
    \/ GetAllAonJsonDataAndSave
    \/ GetAonJsonData
    \/ SaveJson

SpecScrape == InitScrape /\ [][NextScrape]_vars

RECURSIVE Flatten(_)
Flatten(lists) == IF lists = <<>> THEN <<>> ELSE Head(lists) \o Flatten(Tail(lists))

\* every entry the run fetched, in fetch order
FetchedEntries ==
    LET ids == get_aon_pf2e_indices(version)
    IN  Flatten([i \in DOMAIN ids |-> get_aon_json_data(ids[i])])

\* the entries of a list that have the category
OfCategory(entries, category) == SelectSeq(entries, LAMBDA e : e.category = category)

\* C21: the result of a finished scrape has one key per category fetched.
\* Without --retrieve-all-revisions the list of a category holds one entry per
\* name fetched with that category, the one of the greatest release_date, and
\* among those of the greatest release_date the one fetched first; with
\* --retrieve-all-revisions it holds every entry fetched with that category, in
\* fetch order.
ResultKeepsRevisions ==
    (pc = "done" /\ raised = "") =>
        LET fetched == FetchedEntries
            fetched_categories == {fetched[i].category : i \in DOMAIN fetched}
        IN  /\ {item_by_category[i].key : i \in DOMAIN item_by_category} = fetched_categories
            /\ \A i, j \in DOMAIN item_by_category :
                    item_by_category[i].key = item_by_category[j].key => i = j
            /\ \A category \in fetched_categories :
                    LET kept == DictGet(item_by_category, category)
                        seen == OfCategory(fetched, category)
                    IN  IF retrieve_all_revisions
                        THEN kept = seen
                        ELSE /\ {kept[i].name : i \in DOMAIN kept}
                                    = {seen[i].name : i \in DOMAIN seen}
                             /\ \A i, j \in DOMAIN kept : kept[i].name = kept[j].name => i = j
                             /\ \A i \in DOMAIN kept :
                                    \E p \in DOMAIN seen :
                                        /\ seen[p] = kept[i]
                                        /\ \A q \in DOMAIN seen :
                                              seen[q].name = kept[i].name =>
                                                /\ ~StrGreater(seen[q].release_date,
                                                               kept[i].release_date)
                                                /\ seen[q].release_date = kept[i].release_date
                                                       => p <= q

\* a dagger fetched three times, the second and third time with the later
\* date: the second entry is the one kept
SecondOfThreeRevisionsKept ==
    /\ pc = "done"
    /\ raised = ""
    /\ ~retrieve_all_revisions
    /\ Len(FetchedEntries) = 3
    /\ Len(get_aon_json_data("index-1")) = 1
    /\ \A i \in 1..3 : FetchedEntries[i].category = "weapon" /\ FetchedEntries[i].name = "dagger"
    /\ FetchedEntries[1].release_date = <<"2", "0", "1", "9", "-", "0", "8", "-", "0", "1">>
    /\ FetchedEntries[2].release_date = <<"2", "0", "2", "3", "-", "1", "1", "-", "1", "5">>
    /\ FetchedEntries[3].release_date = <<"2", "0", "2", "3", "-", "1", "1", "-", "1", "5">>
    /\ item_by_category = <<[key |-> "weapon", value |-> <<FetchedEntries[2]>>]>>

----------------------------------------------------------------------------
(* scrape_images.py: get_webp_file_and_save                                *)
(*                                                                         *)
(* An entity is a record with the set of the keys its dict has.  A file    *)
(* below aon-data is named by its directory and the image path; its        *)
(* content is "old" when an earlier run left it and "response" when this   *)
(* run wrote it.                                                           *)

\* image_path[1:] if image_path.startswith('/')
StripSlash(image_path) ==
    IF image_path # <<>> /\ Head(image_path) = "/" THEN Tail(image_path) ELSE image_path

\* os.path.exists(os.path.join(directory, image_path))
FileExists(directory, image_path) ==
    \E f \in image_disk : f.dir = directory /\ f.path = image_path

\* response.status_code of requests.get(f'https://2e.aonprd.com/{image_path}')
StatusCode(image_path) == DictGet(web.image, image_path)

\* get_webp_file_and_save up to the loop
GetWebpFileAndSave ==
    /\ pc = "get_webp_file_and_save"
    /\ raised = ""
    /\ requested_urls' = <<>>
    /\ IF "image" \notin aon_entity.keys
       THEN /\ pc' = "for_item"
            /\ UNCHANGED image_paths
       ELSE /\ image_paths' = aon_entity.image
            /\ pc' = "for_image_path"
    /\ UNCHANGED <<raised, shop_state, args, web, json_disk, image_disk, scrape_pass, output_dir,
                   json_files, data, aon_entity>>

\* one turn of the loop of line 71 that goes on where the file exists
HandleImagePathPastExistingFile ==
    /\ pc = "for_image_path"
    /\ raised = ""
    /\ image_paths # <<>>
    /\ LET image_path == StripSlash(Head(image_paths))
       IN  IF FileExists(output_dir, image_path)
           THEN /\ image_paths' = Tail(image_paths)
                /\ UNCHANGED <<pc, raised, image_disk, requested_urls>>
           ELSE IF "name" \notin aon_entity.keys
           THEN /\ raised' = "KeyError"
                /\ UNCHANGED <<pc, image_disk, image_paths, requested_urls>>
           ELSE /\ requested_urls' = Append(requested_urls, image_path)
                /\ image_disk' =
                      IF StatusCode(image_path) = 200
                      THEN image_disk \cup {[dir |-> output_dir, path |-> image_path,
                                             content |-> "response"]}
                      ELSE image_disk
                /\ image_paths' = Tail(image_paths)
                /\ UNCHANGED <<pc, raised>>
    /\ UNCHANGED <<shop_state, args, web, json_disk, scrape_pass, output_dir, json_files, data,
                   aon_entity>>

\* one turn of the loop of line 71
HandleImagePath ==
    /\ pc = "for_image_path"
    /\ raised = ""
    /\ image_paths # <<>>
    /\ LET image_path == StripSlash(Head(image_paths))
       IN  IF FileExists(output_dir, image_path)
           THEN /\ pc' = "for_item"
                /\ UNCHANGED <<raised, image_disk, image_paths, requested_urls>>
           ELSE IF "name" \notin aon_entity.keys
           THEN /\ raised' = "KeyError"
                /\ UNCHANGED <<pc, image_disk, image_paths, requested_urls>>
           ELSE /\ requested_urls' = Append(requested_urls, image_path)
                /\ image_disk' =
                      IF StatusCode(image_path) = 200
                      THEN image_disk \cup {[dir |-> output_dir, path |-> image_path,
                                             content |-> "response"]}
                      ELSE image_disk
                /\ image_paths' = Tail(image_paths)
                /\ UNCHANGED <<pc, raised>>
    /\ UNCHANGED <<shop_state, args, web, json_disk, scrape_pass, output_dir, json_files, data,
                   aon_entity>>

\* the loop of line 71 has handled every path
ReturnFromGetWebpFileAndSave ==
    /\ pc = "for_image_path"
    /\ raised = ""
    /\ image_paths = <<>>
    /\ pc' = "for_item"
    /\ UNCHANGED <<raised, shop_state, args, web, json_disk, image_disk, scrape_pass, image_pass>>

----------------------------------------------------------------------------
(* one call of get_webp_file_and_save *)

MaxPaths == 3

ImagePaths == {<<"/", "a">>, <<"a">>, <<"b">>}

ImageFiles == {StripSlash(p) : p \in ImagePaths}

StatusCodes == {200, 404, 500}

ImageLists == UNION {[1..n -> ImagePaths] : n \in 0..MaxPaths}

Entity(keys, image) ==
    [keys |-> keys, id |-> 1, category |-> "creature", name |-> "goblin",
     release_date |-> <<"2", "0", "1", "9", "-", "0", "8", "-", "0", "1">>, image |-> image]

\* the entities: with both keys, without 'name', without 'image'
Entities ==
    {Entity({"name", "image"}, image) : image \in ImageLists}
    \cup {Entity({"image"}, image) : image \in {l \in ImageLists : Len(l) = 1}}
    \cup {Entity({"name"}, <<>>)}

\* the answers of 2e.aonprd.com
ImageWebs ==
    {[index |-> <<>>, data |-> <<>>,
      image |-> <<[key |-> <<"a">>, value |-> sa], [key |-> <<"b">>, value |-> sb]>>] :
        sa \in StatusCodes, sb \in StatusCodes}

DefaultOutputDir == <<"a", "o", "n">> \o DefaultVersion

OldFile(image_path) == [dir |-> DefaultOutputDir, path |-> image_path, content |-> "old"]

InitWebp ==
    /\ pc = "get_webp_file_and_save"
    /\ raised = ""
    /\ NoShop
    /\ args = [program |-> "scrape_images", aon_version |-> DefaultVersion,
               retrieve_all_revisions |-> FALSE]
    /\ web \in ImageWebs
    /\ json_disk = {}
    /\ image_disk \in {{OldFile(p) : p \in old} : old \in SUBSET ImageFiles}
    /\ version = NoneValue
    /\ retrieve_all_revisions = FALSE
    /\ indices = <<>>
    /\ item_by_category_and_name = <<>>
    /\ item_by_category = <<>>
    /\ output_dir = DefaultOutputDir
    /\ json_files = <<>>
    /\ data = <<>>
    /\ aon_entity \in Entities
    /\ image_paths = <<>>
    /\ requested_urls = <<>>

NextWebp ==
    \/ GetWebpFileAndSave
    \/ HandleImagePath
    \/ ReturnFromGetWebpFileAndSave

SpecWebp == InitWebp /\ [][NextWebp]_vars

\* the image paths of the entity, as the loop of line 71 names their files
EntityPaths == [i \in DOMAIN aon_entity.image |-> StripSlash(aon_entity.image[i])]

\* the file of the i-th path exists when the loop gets to it: an earlier run
\* left it, or an earlier turn of the loop has written it
ExistsAtTurn(i) ==
    \/ \E f \in image_disk : f.path = EntityPaths[i] /\ f.content = "old"
    \/ \E j \in 1..(i - 1) : EntityPaths[j] = EntityPaths[i] /\ StatusCode(EntityPaths[j]) = 200

\* the number of paths before the first one whose file exists
TurnsBeforeExisting ==
    IF \E i \in DOMAIN EntityPaths : ExistsAtTurn(i)
    THEN (CHOOSE i \in DOMAIN EntityPaths :
              ExistsAtTurn(i) /\ \A j \in 1..(i - 1) : ~ExistsAtTurn(j)) - 1
    ELSE Len(EntityPaths)

\* C22: a call of get_webp_file_and_save on an entity with an image list
\* requests the paths in list order; once the call has returned, it has
\* requested exactly the paths before the first one whose file existed, those
\* answered with a status other than 200 included, and it has written a file
\* for exactly those of them answered with status 200: no path from the
\* existing one on is requested or written.
CallEndsAtExistingFile ==
    (pc \in {"for_image_path", "for_item"} /\ "image" \in aon_entity.keys) =>
        /\ Len(requested_urls) <= Len(EntityPaths)
        /\ requested_urls = SubSeq(EntityPaths, 1, Len(requested_urls))
        /\ (pc = "for_item" /\ raised = "") =>
              /\ requested_urls = SubSeq(EntityPaths, 1, TurnsBeforeExisting)
              /\ {f.path : f \in {g \in image_disk : g.content = "response"}}
                    = {EntityPaths[i] : i \in {j \in 1..TurnsBeforeExisting :
                                                  StatusCode(EntityPaths[j]) = 200}}

\* the paths /a, b, a with a answered 404 and the file of b on disk: a is
\* requested once, nothing is written and the last path is not handled
MissingPathAfterExistingFile ==
    /\ pc = "for_item"
    /\ raised = ""
    /\ aon_entity.image = <<<<"/", "a">>, <<"b">>, <<"a">>>>
    /\ "name" \in aon_entity.keys
    /\ StatusCode(<<"a">>) = 404
    /\ image_disk = {OldFile(<<"b">>)}
    /\ requested_urls = <<<<"a">>>>

----------------------------------------------------------------------------
(* scrape_images.py: main and scrape_all_images *)

\* the orders os.listdir can give the files of a set
Orders(files) ==
    {order \in [1..Cardinality(files) -> files] :
        \A i, j \in DOMAIN order : order[i] = order[j] => i = j}

\* list_all_json_files(os.path.join('aon-data', directory)), in any order
list_all_json_files(directory) ==
    Orders({[dir |-> f.dir, name |-> f.name] : f \in {g \in json_disk : g.dir = directory}})

\* json.load of an open file
JsonLoad(file) ==
    (CHOOSE f \in json_disk : f.dir = file.dir /\ f.name = file.name).content

\* scrape_images.main up to the call of scrape_all_images
ScrapeImagesMain ==
    /\ pc = "scrape_images"
    /\ raised = ""
    /\ output_dir' = <<"a", "o", "n">> \o args.aon_version
    /\ pc' = "scrape_all_images"
    /\ UNCHANGED <<raised, shop_state, args, web, json_disk, image_disk, scrape_pass, json_files,
                   data, aon_entity, image_paths, requested_urls>>

\* scrape_all_images, lines 28-33: without a JSON file it calls
\* get_all_aon_json_data_and_save(aon_version, False), aon_version being the
\* name of output_dir below aon-data
ScrapeAllImages ==
    /\ pc = "scrape_all_images"
    /\ raised = ""
    /\ \E listing \in list_all_json_files(output_dir) :
          IF Len(listing) = 0
          THEN /\ version' = output_dir
               /\ retrieve_all_revisions' = FALSE
               /\ pc' = "get_all_aon_json_data_and_save"
               /\ UNCHANGED json_files
          ELSE /\ json_files' = listing
               /\ pc' = "for_file"
               /\ UNCHANGED <<version, retrieve_all_revisions>>
    /\ UNCHANGED <<raised, shop_state, args, web, json_disk, image_disk, indices,
                   item_by_category_and_name, item_by_category, output_dir, data, aon_entity,
                   image_paths, requested_urls>>

\* scrape_all_images, line 34
ListAgain ==
    /\ pc = "list_again"
    /\ raised = ""
    /\ \E listing \in list_all_json_files(output_dir) : json_files' = listing
    /\ pc' = "for_file"
    /\ UNCHANGED <<raised, shop_state, args, web, json_disk, image_disk, scrape_pass, output_dir,
                   data, aon_entity, image_paths, requested_urls>>

\* scrape_all_images, lines 36-38
OpenJsonFile ==
    /\ pc = "for_file"
    /\ raised = ""
    /\ json_files # <<>>
    /\ data' = JsonLoad(Head(json_files))
    /\ json_files' = Tail(json_files)
    /\ pc' = "for_item"
    /\ UNCHANGED <<raised, shop_state, args, web, json_disk, image_disk, scrape_pass, output_dir,
                   aon_entity, image_paths, requested_urls>>

\* scrape_all_images, lines 39-40
CallGetWebpFileAndSave ==
    /\ pc = "for_item"
    /\ raised = ""
    /\ data # <<>>
    /\ aon_entity' = Head(data)
    /\ data' = Tail(data)
    /\ pc' = "get_webp_file_and_save"
    /\ UNCHANGED <<raised, shop_state, args, web, json_disk, image_disk, scrape_pass, output_dir,
                   json_files, image_paths, requested_urls>>

\* the loop of line 39 is over
CloseJsonFile ==
    /\ pc = "for_item"
    /\ raised = ""
    /\ data = <<>>
    /\ pc' = "for_file"
    /\ UNCHANGED <<raised, shop_state, args, web, json_disk, image_disk, scrape_pass, image_pass>>

\* the loop of line 36 is over
ReturnFromScrapeAllImages ==
    /\ pc = "for_file"
    /\ raised = ""
    /\ json_files = <<>>
    /\ pc' = "done"
    /\ UNCHANGED <<raised, shop_state, args, web, json_disk, image_disk, scrape_pass, image_pass>>

----------------------------------------------------------------------------
(* python scrape_images.py, with and without JSON files in aon-data/aon39  *)

MaxFileEntries == 2

NamedEntity(id, name, image) ==
    [Entity({"name", "image"}, image) EXCEPT !.id = id, !.name = name]

FileEntities ==
    {NamedEntity(1, "goblin", <<<<"/", "a">>, <<"b">>>>),
     NamedEntity(2, "orc", <<<<"a">>>>),
     [Entity({"name"}, <<>>) EXCEPT !.id = 3, !.name = "wolf"]}

EntityLists == UNION {[1..n -> FileEntities] : n \in 0..MaxFileEntries}

\* the server: it has the index of aon39 and may have one named aonaon39
ScrapeImagesWebs(entries) ==
    {[index |-> [i \in 1..Len(versions) |-> [key |-> versions[i], value |-> <<"index-1">>]],
      data |-> <<[key |-> "index-1", value |-> entries]>>,
      image |-> <<[key |-> <<"a">>, value |-> sa], [key |-> <<"b">>, value |-> 200]>>] :
        versions \in {<<DefaultOutputDir>>, <<DefaultOutputDir, <<"a", "o", "n">> \o DefaultOutputDir>>},
        sa \in {200, 404}}

CreatureFile(entries) == [dir |-> DefaultOutputDir, name |-> "creature", content |-> entries]

TorchFile ==
    [dir |-> DefaultOutputDir, name |-> "equipment",
     content |-> <<[Entity({"name"}, <<>>) EXCEPT !.id = 4, !.category = "equipment",
                                                  !.name = "torch"]>>]

\* aon-data/aon39 has no JSON file and the server has entries, or it has one
\* or two files an earlier scrape wrote
InitImages ==
    /\ pc = "scrape_images"
    /\ raised = ""
    /\ NoShop
    /\ args = [program |-> "scrape_images", aon_version |-> DefaultVersion,
               retrieve_all_revisions |-> FALSE]
    /\ \E entries \in EntityLists :
          \/ /\ json_disk = {}
             /\ web \in ScrapeImagesWebs(entries)
          \/ /\ json_disk \in {{CreatureFile(entries)}, {CreatureFile(entries), TorchFile}}
             /\ web \in ScrapeImagesWebs(<<>>)
    /\ image_disk \in {{}, {OldFile(<<"b">>)}}
    /\ version = NoneValue
    /\ retrieve_all_revisions = FALSE
    /\ indices = <<>>
    /\ item_by_category_and_name = <<>>
    /\ item_by_category = <<>>
    /\ output_dir = NoneValue
    /\ json_files = <<>>
    /\ data = <<>>
    /\ aon_entity = NoneValue
    /\ image_paths = <<>>
    /\ requested_urls = <<>>

NextImages ==
    \/ ScrapeImagesMain
    \/ ScrapeAllImages
    \/ GetAllAonJsonDataAndSave
    \/ GetAonJsonData
    \/ SaveJson
    \/ ListAgain
    \/ OpenJsonFile
    \/ CallGetWebpFileAndSave
    \/ GetWebpFileAndSave
    \/ HandleImagePath
    \/ ReturnFromGetWebpFileAndSave
    \/ CloseJsonFile
    \/ ReturnFromScrapeAllImages

SpecImages == InitImages /\ [][NextImages]_vars

\* scrape_all_images has called get_all_aon_json_data_and_save
FallbackScrape == args.program = "scrape_images" /\ ~IsNone(version)

\* C23: once scrape_all_images has found no JSON file in aon-data/<aon_version>
\* and called the scraper, the scrape does not fail where the server has the
\* index of that version, and the second listing finds in that directory
\* exactly the files the scrape wrote, one for each category scraped.
FallbackFillsVersionDirectory ==
    FallbackScrape =>
        /\ IndexIsServed(output_dir) => raised # "Exception"
        /\ pc = "list_again" =>
              {f \in json_disk : f.dir = output_dir} = WrittenFiles(output_dir, item_by_category)
====
